---------------------------- MODULE Spec2Model ----------------------------
(***************************************************************************)
(* A model of the RAM job store of flier/quartz (src/ramstore.go, lines    *)
(* 1-350) and of the keys, wrappers and ordered set it is built on.        *)
(*                                                                         *)
(* Strings are sequences of one-character strings, so that a key is the    *)
(* text "group.name" the code builds and Group() is computed by splitting. *)
(* Every method of the store is an operator from a store value (and the    *)
(* arguments) to a result [st, out, val]:                                  *)
(*   st   the store when the call ends (or where it stopped),              *)
(*   out  "return" | "blocked" | "panic",                                  *)
(*   val  the value returned.                                              *)
(* sync.Mutex is not reentrant: Lock() on a held mutex never returns, and  *)
(* that is the outcome "blocked" (the goroutine stays inside the call and  *)
(* keeps whatever it holds).  A method called by another method is the     *)
(* same operator applied to the store as the caller left it.               *)
(***************************************************************************)
EXTENDS Integers, Sequences, FiniteSets, TLC

\* store   the RAMJobStore and the objects it points to
\* last    the last call made on the store, the store before it, its outcome
\* client  what the callers of the store hold: the objects they built or
\*         retrieved, their goroutines, the values they computed
VARIABLES store, last, client

vars == <<store, last, client>>

(***************************************************************************)
(* Bounds and inputs                                                       *)
(***************************************************************************)
\* Longest key list handed to RemoveJobs / RemoveTriggers.
MaxKeys == 2

Dot == "."

\* sort-free helpers on Go maps, modelled as functions with a finite domain.
EmptyMap == << >>

MapPut(m, k, v) == [x \in (DOMAIN m) \cup {k} |-> IF x = k THEN v ELSE m[x]]

MapDelete(m, k) == [x \in (DOMAIN m) \ {k} |-> m[x]]

(***************************************************************************)
(* Keys: JobKey and TriggerKey are []byte holding "group.name".            *)
(***************************************************************************)
NewGroupJobKey(name, group) == group \o <<Dot>> \o name

NewGroupTriggerKey(name, group) == group \o <<Dot>> \o name

\* strings.Split(s, "."): the segments between the dots, at least one.
RECURSIVE SplitDot(_)
SplitDot(s) ==
    IF \A i \in 1..Len(s) : s[i] # Dot
    THEN <<s>>
    ELSE LET p == CHOOSE i \in 1..Len(s) :
                      s[i] = Dot /\ \A j \in 1..(i-1) : s[j] # Dot
         IN  <<SubSeq(s, 1, p-1)>> \o SplitDot(SubSeq(s, p+1, Len(s)))

\* key.Group(): strings.Split(string(key), ".")[0]
KeyGroup(key) == SplitDot(key)[1]

\* key.Name(): strings.Split(string(key), ".")[1]
KeyName(key) == SplitDot(key)[2]

\* key.String(): string(key)
KeyString(key) == key

DEFAULT_GROUP == <<"D", "E", "F", "A", "U", "L", "T">>

\* NewJobKey(name), NewTriggerKey(name)
NewJobKey(name) == NewGroupJobKey(name, DEFAULT_GROUP)

NewTriggerKey(name) == NewGroupTriggerKey(name, DEFAULT_GROUP)

\* key.Equals(other): bytes.Equal(key, other)
KeyEquals(key, other) == key = other

GroupG == <<"g">>
GroupH == <<"h">>

JobKeyInputs ==
    { NewGroupJobKey(<<"a">>, GroupG),
      NewGroupJobKey(<<"b">>, GroupG),
      NewGroupJobKey(<<"a">>, GroupH) }

TriggerKeyInputs ==
    { NewGroupTriggerKey(<<"t">>, GroupG),
      NewGroupTriggerKey(<<"u">>, GroupG) }

\* The nil pointer; the objects of a heap are numbered from 1.
NilPointer == 0

\* A jobDetail: key, durable, and the pointers dataMap (a dirtyFlagMap) and
\* builder (a JobBuilder).  The jobs given to the store here have neither.
JobInputs ==
    [key : JobKeyInputs, durable : BOOLEAN, dataMap : {NilPointer},
     builder : {NilPointer}]

\* An OperableTrigger as the store sees it: Key() and JobKey().
TriggerInputs == [key : TriggerKeyInputs, jobKey : JobKeyInputs]

\* Key lists of at most MaxKeys elements.
SeqsUpTo(S, n) == UNION { [1..k -> S] : k \in 0..n }

(***************************************************************************)
(* Results and the lock                                                    *)
(***************************************************************************)
Nil == "nil"
AlreadyExists == "AlreadyExists"
JobPersistence == "JobPersistence"

STATE_WAITING == "WAITING"
STATE_PAUSED == "PAUSED"
STATE_BLOCKED == "BLOCKED"
STATE_PAUSED_BLOCKED == "PAUSED_BLOCKED"

\* The value of the one element of a set: { e(v) : v \in {x} } computes x once.
TheOne(S) == CHOOSE v \in S : TRUE

Return(st, val) == [st |-> st, out |-> "return", val |-> val]

Blocked(st) == [st |-> st, out |-> "blocked", val |-> Nil]

Panic(st) == [st |-> st, out |-> "panic", val |-> Nil]

\* The store as the body of a method sees it once s.lock.Lock() has returned.
Held(st) == [st EXCEPT !.lock = TRUE]

\* s.lock.Lock(); defer s.lock.Unlock(); <body>.  r is the body's result on
\* Held(st).  Lock() on a held mutex blocks for ever; a body that blocks never
\* reaches the deferred Unlock; a body that returns or panics runs it.
WithLock(st, r) ==
    IF st.lock
    THEN Blocked(st)
    ELSE TheOne({ IF v.out = "blocked" THEN v ELSE [v EXCEPT !.st.lock = FALSE] :
                  v \in {r} })

\* NewRAMJobStore(): empty maps, an empty ordered set, empty hash sets.
\* jws and tws hold the jobWrapper and triggerWrapper objects the maps,
\* the list and the ordered set point to; maps and builders hold the
\* dirtyFlagMap and JobBuilder objects the jobs and their callers point to.
NewRAMJobStore ==
    [ lock                |-> FALSE,
      jobsByKey           |-> EmptyMap,
      triggersByKey       |-> EmptyMap,
      jobsByGroup         |-> EmptyMap,
      triggersByGroup     |-> EmptyMap,
      timeTriggers        |-> << >>,
      triggers            |-> << >>,
      pausedTriggerGroups |-> {},
      pausedJobGroups     |-> {},
      blockedJobs         |-> {},
      jws                 |-> EmptyMap,
      tws                 |-> EmptyMap,
      maps                |-> EmptyMap,
      builders            |-> EmptyMap ]

\* &jobWrapper{...} / &triggerWrapper{...}: a pointer no live object has.
NewPointer(heap) == Cardinality(DOMAIN heap) + 1

(***************************************************************************)
(* Reads                                                                   *)
(***************************************************************************)
\* Put that sets the flag whether or not the value changed.
DirtyFlagMapPutAlwaysDirty(m, key, value) ==
    [entries |-> MapPut(m.entries, key, value), dirty |-> TRUE]

\* dirtyFlagMap.Put on the map object m: [entries, dirty].
DirtyFlagMapPut(m, key, value) ==
    IF key \notin DOMAIN m.entries \/ m.entries[key] # value
    THEN [entries |-> MapPut(m.entries, key, value), dirty |-> TRUE]
    ELSE m

\* for _, entry := range m.Entries() { clone.Put(entry.Key(), entry.Value()) }
RECURSIVE PutEntries(_, _, _)
PutEntries(clone, m, keys) ==
    IF keys = {}
    THEN clone
    ELSE LET key == CHOOSE x \in keys : TRUE IN
         PutEntries(DirtyFlagMapPut(clone, key, m.entries[key]), m, keys \ {key})

\* dirtyFlagMap.Clone(): a new map object with m's flag, filled by Put.
DirtyFlagMapClone(m) ==
    PutEntries([entries |-> EmptyMap, dirty |-> m.dirty], m, DOMAIN m.entries)

\* jobDetail.Clone(): clone := *d copies every field, the builder pointer
\* among them; the data map, when there is one, is replaced by a clone of
\* it, a new object of the heap.  [h, d]
JobClone(h, d) ==
    IF d.dataMap # NilPointer
    THEN LET m == NewPointer(h.maps) IN
         [h |-> [h EXCEPT !.maps = MapPut(@, m, DirtyFlagMapClone(h.maps[d.dataMap]))],
          d |-> [d EXCEPT !.dataMap = m]]
    ELSE [h |-> h, d |-> d]

\* trigger.Clone()
TriggerClone(t) == [key |-> t.key, jobKey |-> t.jobKey]

\* RetrieveJob: <<clone>> when the key is stored, << >> for nil.
RetrieveJob(st, key) ==
    WithLock(st,
        LET h == Held(st) IN
        IF KeyString(key) \in DOMAIN h.jobsByKey
        THEN TheOne({ Return(c.h, <<c.d>>) :
                      c \in {JobClone(h, h.jws[h.jobsByKey[KeyString(key)]].jobDetail)} })
        ELSE Return(h, << >>))

RetrieveTrigger(st, key) ==
    WithLock(st,
        LET h == Held(st) IN
        IF KeyString(key) \in DOMAIN h.triggersByKey
        THEN Return(h, <<TriggerClone(h.tws[h.triggersByKey[KeyString(key)]].trigger)>>)
        ELSE Return(h, << >>))

\* The clones of the wrappers of a list whose JobKey() equals key, in order.
RECURSIVE ClonesForJob(_, _, _)
ClonesForJob(h, list, key) ==
    IF list = << >>
    THEN << >>
    ELSE LET tw == h.tws[Head(list)] IN
         (IF KeyEquals(tw.trigger.jobKey, key)
          THEN <<TriggerClone(tw.trigger)>>
          ELSE << >>) \o ClonesForJob(h, Tail(list), key)

TriggersForJob(st, key) ==
    WithLock(st, LET h == Held(st) IN Return(h, ClonesForJob(h, h.triggers, key)))

\* Lock(); read; Unlock(); return exists && jw != nil
CheckJobExists(st, key) ==
    WithLock(st, LET h == Held(st) IN Return(h, KeyString(key) \in DOMAIN h.jobsByKey))

CheckTriggerExists(st, key) ==
    WithLock(st, LET h == Held(st) IN Return(h, KeyString(key) \in DOMAIN h.triggersByKey))

(***************************************************************************)
(* StoreJob, RemoveJob                                                     *)
(***************************************************************************)
\* A read of the by-key index that never finds the job.
StoreJobReadsNil(h, jobDetail) == NilPointer

\* jw, exists := s.jobsByKey[jobDetail.Key().String()]: the wrapper, or nil.
StoreJobRead(h, jobDetail) ==
    IF KeyString(jobDetail.key) \in DOMAIN h.jobsByKey
    THEN h.jobsByKey[KeyString(jobDetail.key)]
    ELSE NilPointer

\* The rest of StoreJob, with the wrapper jw the read gave.
StoreJobAct(h, jobDetail, replaceExisting, jw) ==
    LET k      == KeyString(jobDetail.key)
        g      == KeyGroup(jobDetail.key)
        exists == jw # NilPointer
    IN  IF exists /\ ~replaceExisting
        THEN Return(h, AlreadyExists)
        ELSE IF jw = NilPointer
             THEN LET grpMap == IF g \in DOMAIN h.jobsByGroup
                                THEN h.jobsByGroup[g]
                                ELSE EmptyMap
                      new    == NewPointer(h.jws)
                  IN  Return([h EXCEPT
                                 !.jws = MapPut(@, new, [jobDetail |-> jobDetail]),
                                 !.jobsByGroup = MapPut(@, g, MapPut(grpMap, k, new)),
                                 !.jobsByKey = MapPut(@, k, new)],
                             Nil)
             ELSE Return([h EXCEPT !.jws[jw].jobDetail = jobDetail], Nil)

\* StoreJob without the test of replaceExisting: an existing job is always
\* overwritten.
StoreJobBodyAlwaysReplace(h, jobDetail, replaceExisting) ==
    LET k == KeyString(jobDetail.key)
        g == KeyGroup(jobDetail.key)
    IN  IF k \notin DOMAIN h.jobsByKey
        THEN LET grpMap == IF g \in DOMAIN h.jobsByGroup
                           THEN h.jobsByGroup[g]
                           ELSE EmptyMap
                 jw     == NewPointer(h.jws)
             IN  Return([h EXCEPT
                            !.jws = MapPut(@, jw, [jobDetail |-> jobDetail]),
                            !.jobsByGroup = MapPut(@, g, MapPut(grpMap, k, jw)),
                            !.jobsByKey = MapPut(@, k, jw)],
                        Nil)
        ELSE Return([h EXCEPT !.jws[h.jobsByKey[k]].jobDetail = jobDetail], Nil)

StoreJobBody(h, jobDetail, replaceExisting) ==
    StoreJobAct(h, jobDetail, replaceExisting, StoreJobRead(h, jobDetail))

StoreJob(st, jobDetail, replaceExisting) ==
    WithLock(st, StoreJobBody(Held(st), jobDetail, replaceExisting))

\* A RemoveJob that reports every key as found.
RemoveJobReportsFound(st, key) ==
    WithLock(st, Return(Held(st), [found |-> TRUE, err |-> Nil]))

\* Lock(); defer Unlock(); return false, nil
RemoveJob(st, key) ==
    WithLock(st, Return(Held(st), [found |-> FALSE, err |-> Nil]))

(***************************************************************************)
(* The ordered set (treeSet) behind timeTriggers                           *)
(***************************************************************************)
\* The method sets that decide the type assertion lhs.(Trigger) on the
\* *triggerWrapper items StoreTrigger adds to timeTriggers.
TriggerWrapperMethods == {"Key", "JobKey"}

TriggerMethods ==
    {"Key", "JobKey", "Description", "JobDataMap", "Priority", "MayFireAgain",
     "StartTime", "EndTime", "NextFireTime", "PreviousFireTime", "FireTimeAfter",
     "FinalFireTime", "TriggerBuilder", "ScheduleBuilder"}

\* Byte order of the characters used in keys.
CharOrder == <<".", "a", "b", "g", "h", "t", "u">>

CharRank(c) == CHOOSE i \in 1..Len(CharOrder) : CharOrder[i] = c

\* strings.Compare(a, b): -1, 0 or 1.
RECURSIVE StringsCompare(_, _)
StringsCompare(a, b) ==
    IF a = << >> /\ b = << >> THEN 0
    ELSE IF a = << >> THEN -1
    ELSE IF b = << >> THEN 1
    ELSE IF CharRank(Head(a)) < CharRank(Head(b)) THEN -1
    ELSE IF CharRank(Head(a)) > CharRank(Head(b)) THEN 1
    ELSE StringsCompare(Tail(a), Tail(b))

\* The comparator NewRAMJobStore gives timeTriggers.  The items are
\* *triggerWrapper pointers: the assertion to Trigger panics unless the
\* wrapper has every method of Trigger.  [panic, v]
TimeTriggersCompare(h, lhs, rhs) ==
    IF ~(TriggerMethods \subseteq TriggerWrapperMethods)
    THEN [panic |-> TRUE, v |-> 0]
    ELSE [panic |-> FALSE,
          v |-> StringsCompare(KeyString(h.tws[lhs].trigger.key),
                               KeyString(h.tws[rhs].trigger.key))]

\* s.compare(lhs, rhs): h is what the comparator closes over, the store for
\* timeTriggers; a set made by NewTreeSet with a comparator of strings holds
\* strings and compares them with strings.Compare.  [panic, v]
TreeSetCompare(h, lhs, rhs) ==
    IF "compare" \in DOMAIN h
    THEN [panic |-> FALSE, v |-> StringsCompare(lhs, rhs)]
    ELSE TimeTriggersCompare(h, lhs, rhs)

\* sort.Search(len(items), func(i) { return compare(item, items[i]) <= 0 })
\* from the bounds i, j (0-based).  [panic, n]
RECURSIVE SortSearch(_, _, _, _, _)
SortSearch(h, items, item, i, j) ==
    IF ~(i < j)
    THEN [panic |-> FALSE, n |-> i]
    ELSE LET m == (i + j) \div 2
             c == TreeSetCompare(h, item, items[m + 1])
         IN  IF c.panic THEN [panic |-> TRUE, n |-> i]
             ELSE IF ~(c.v <= 0)
                  THEN SortSearch(h, items, item, m + 1, j)
                  ELSE SortSearch(h, items, item, i, m)

\* treeSet.Contains.  [panic, val]
TreeSetContains(h, items, item) ==
    LET s == SortSearch(h, items, item, 0, Len(items)) IN
    IF s.panic THEN [panic |-> TRUE, val |-> FALSE]
    ELSE IF s.n < Len(items)
         THEN LET c == TreeSetCompare(h, items[s.n + 1], item) IN
              [panic |-> c.panic, val |-> ~c.panic /\ c.v = 0]
         ELSE [panic |-> FALSE, val |-> FALSE]

\* Add that inserts at the place found without looking for an equal element.
TreeSetAddDuplicates(h, items, item) ==
    LET s == SortSearch(h, items, item, 0, Len(items)) IN
    [panic |-> s.panic,
     items |-> IF s.panic THEN items
               ELSE SubSeq(items, 1, s.n) \o <<item>>
                    \o SubSeq(items, s.n + 1, Len(items))]

\* treeSet.Add.  [panic, items]
TreeSetAdd(h, items, item) ==
    LET s == SortSearch(h, items, item, 0, Len(items)) IN
    IF s.panic THEN [panic |-> TRUE, items |-> items]
    ELSE IF s.n = Len(items)
         THEN [panic |-> FALSE, items |-> Append(items, item)]
         ELSE LET c == TreeSetCompare(h, item, items[s.n + 1]) IN
              IF c.panic THEN [panic |-> TRUE, items |-> items]
              ELSE IF c.v # 0
                   THEN [panic |-> FALSE,
                         items |-> SubSeq(items, 1, s.n) \o <<item>>
                                   \o SubSeq(items, s.n + 1, Len(items))]
                   ELSE [panic |-> FALSE, items |-> items]

\* Remove that deletes the element at the place found, equal or not.
TreeSetRemoveAtPlace(h, items, item) ==
    LET s == SortSearch(h, items, item, 0, Len(items)) IN
    IF s.panic THEN [panic |-> TRUE, items |-> items, val |-> FALSE]
    ELSE IF s.n < Len(items)
         THEN [panic |-> FALSE,
               items |-> SubSeq(items, 1, s.n) \o SubSeq(items, s.n + 2, Len(items)),
               val |-> TRUE]
         ELSE [panic |-> FALSE, items |-> items, val |-> FALSE]

\* treeSet.Remove.  [panic, items, val]
TreeSetRemove(h, items, item) ==
    LET s == SortSearch(h, items, item, 0, Len(items)) IN
    IF s.panic THEN [panic |-> TRUE, items |-> items, val |-> FALSE]
    ELSE IF s.n < Len(items)
         THEN LET c == TreeSetCompare(h, items[s.n + 1], item) IN
              IF c.panic THEN [panic |-> TRUE, items |-> items, val |-> FALSE]
              ELSE IF c.v = 0
                   THEN [panic |-> FALSE,
                         items |-> SubSeq(items, 1, s.n)
                                   \o SubSeq(items, s.n + 2, Len(items)),
                         val |-> TRUE]
                   ELSE [panic |-> FALSE, items |-> items, val |-> FALSE]
         ELSE [panic |-> FALSE, items |-> items, val |-> FALSE]

(***************************************************************************)
(* removeTrigger, StoreTrigger                                             *)
(***************************************************************************)
\* for i, trigger := range s.triggers {
\*     if !trigger.Key().Equals(key) {
\*         tw = trigger
\*         s.triggers = append(s.triggers[:i], s.triggers[i+1:]...) } }
\* arr is the backing array the range reads (its length is the length of
\* s.triggers when the loop starts), n the current len(s.triggers), i the
\* 0-based index.  The append shifts arr[i+1..n-1] down in place;
\* s.triggers[i+1:] panics when i+1 > n.  [panic, arr, n, tw]
RECURSIVE RemoveLoop(_, _, _, _, _, _)
RemoveLoop(h, key, arr, n, i, tw) ==
    IF i = Len(arr)
    THEN [panic |-> FALSE, arr |-> arr, n |-> n, tw |-> tw]
    ELSE LET trigger == arr[i + 1] IN
         IF ~KeyEquals(h.tws[trigger].trigger.key, key)
         THEN IF i + 1 > n
              THEN [panic |-> TRUE, arr |-> arr, n |-> n, tw |-> trigger]
              ELSE RemoveLoop(h, key,
                       [x \in 1..Len(arr) |->
                            IF x >= i + 1 /\ x <= n - 1 THEN arr[x + 1] ELSE arr[x]],
                       n - 1, i + 1, trigger)
         ELSE RemoveLoop(h, key, arr, n, i + 1, tw)

\* if removeOrphanedJob { ... }: h is the store after timeTriggers.Remove(tw).
RemoveOrphanedJob(h, tw) ==
    IF tw = NilPointer
    THEN Panic(h)
    ELSE LET jobKey == h.tws[tw].trigger.jobKey
             exists == KeyString(jobKey) \in DOMAIN h.jobsByKey
         IN  TheOne({
               IF r.out # "return" THEN r
               ELSE IF Len(r.val) = 0 /\ exists
                       /\ h.jws[h.jobsByKey[KeyString(jobKey)]].jobDetail.durable
                    THEN TheOne({ IF q.out # "return" THEN q ELSE Return(q.st, TRUE) :
                                  q \in {RemoveJob(r.st,
                                      h.jws[h.jobsByKey[KeyString(jobKey)]].jobDetail.key)} })
                    ELSE Return(r.st, TRUE) :
               r \in {TriggersForJob(h, jobKey)} })

RemoveTriggerBody(h, key, removeOrphanedJob) ==
    LET k == KeyString(key)
        g == KeyGroup(key)
    IN  IF k \notin DOMAIN h.triggersByKey
        THEN Return(h, FALSE)
        ELSE LET byGroup ==
                     IF g \in DOMAIN h.triggersByGroup
                        /\ Cardinality(DOMAIN h.triggersByGroup[g]) > 0
                     THEN LET m == MapDelete(h.triggersByGroup[g], k) IN
                          IF Cardinality(DOMAIN m) = 0
                          THEN MapDelete(h.triggersByGroup, g)
                          ELSE MapPut(h.triggersByGroup, g, m)
                     ELSE h.triggersByGroup
             IN  TheOne({
                   LET h1 == [h EXCEPT !.triggersByKey = MapDelete(@, k),
                                       !.triggersByGroup = byGroup,
                                       !.triggers = SubSeq(loop.arr, 1, loop.n)]
                   IN  IF loop.panic THEN Panic(h1)
                       ELSE TheOne({
                              IF rem.panic THEN Panic(h1)
                              ELSE IF removeOrphanedJob
                                   THEN RemoveOrphanedJob(
                                            [h1 EXCEPT !.timeTriggers = rem.items], loop.tw)
                                   ELSE Return([h1 EXCEPT !.timeTriggers = rem.items], TRUE) :
                              rem \in {TreeSetRemove(h1, h1.timeTriggers, loop.tw)} }) :
                   loop \in {RemoveLoop(h, key, h.triggers, Len(h.triggers), 0, NilPointer)} })

removeTrigger(st, key, removeOrphanedJob) ==
    WithLock(st, RemoveTriggerBody(Held(st), key, removeOrphanedJob))

RemoveTrigger(st, key) == removeTrigger(st, key, TRUE)

\* Lines 195-223: the wrapper, the list, the maps, the state, the ordered set.
InsertTrigger(h, trigger) ==
    LET k       == KeyString(trigger.key)
        g       == KeyGroup(trigger.key)
        tw      == NewPointer(h.tws)
        grpMap  == IF g \in DOMAIN h.triggersByGroup
                   THEN h.triggersByGroup[g]
                   ELSE EmptyMap
        paused  == \/ g \in h.pausedTriggerGroups
                   \/ KeyGroup(trigger.jobKey) \in h.pausedJobGroups
        blocked == KeyString(trigger.jobKey) \in h.blockedJobs
        state   == IF paused
                   THEN (IF blocked THEN STATE_PAUSED_BLOCKED ELSE STATE_PAUSED)
                   ELSE (IF blocked THEN STATE_BLOCKED ELSE STATE_WAITING)
        h1      == [h EXCEPT
                       !.tws = MapPut(@, tw, [trigger |-> trigger, state |-> state]),
                       !.triggers = Append(@, tw),
                       !.triggersByGroup = MapPut(@, g, MapPut(grpMap, k, tw)),
                       !.triggersByKey = MapPut(@, k, tw)]
    IN  IF paused \/ blocked
        THEN Return(h1, Nil)
        ELSE TheOne({ IF add.panic
                      THEN Panic(h1)
                      ELSE Return([h1 EXCEPT !.timeTriggers = add.items], Nil) :
                      add \in {TreeSetAdd(h1, h1.timeTriggers, tw)} })

StoreTriggerBody(h, trigger, replaceExisting) ==
    LET exists == KeyString(trigger.key) \in DOMAIN h.triggersByKey IN
    IF exists /\ ~replaceExisting
    THEN Return(h, AlreadyExists)
    ELSE TheOne({
           IF r1.out # "return" THEN r1
           ELSE TheOne({ IF r2.out # "return" THEN r2
                         ELSE IF r2.val = << >>
                              THEN Return(r2.st, JobPersistence)
                              ELSE InsertTrigger(r2.st, trigger) :
                         r2 \in {RetrieveJob(r1.st, trigger.jobKey)} }) :
           r1 \in {IF exists
                   THEN removeTrigger(h, trigger.key, FALSE)
                   ELSE Return(h, FALSE)} })

StoreTrigger(st, trigger, replaceExisting) ==
    WithLock(st, StoreTriggerBody(Held(st), trigger, replaceExisting))

(***************************************************************************)
(* The operations on several jobs and triggers                             *)
(***************************************************************************)
StoreJobAndTrigger(st, job, trigger) ==
    TheOne({ IF r1.out # "return" \/ r1.val # Nil
             THEN r1
             ELSE StoreTrigger(r1.st, trigger, FALSE) :
             r1 \in {StoreJob(st, job, FALSE)} })

\* for _, trigger := range triggers { if s.CheckTriggerExists(...) {...} }
RECURSIVE CheckTriggersNew(_, _)
CheckTriggersNew(h, triggers) ==
    IF triggers = << >>
    THEN Return(h, Nil)
    ELSE TheOne({ IF r.out # "return" THEN r
                  ELSE IF r.val THEN Return(r.st, AlreadyExists)
                  ELSE CheckTriggersNew(r.st, Tail(triggers)) :
                  r \in {CheckTriggerExists(h, Head(triggers).key)} })

\* The first loop of StoreJobsAndTriggers, over the entries in the order the
\* range visits them.
RECURSIVE CheckBatchNew(_, _)
CheckBatchNew(h, entries) ==
    IF entries = << >>
    THEN Return(h, Nil)
    ELSE TheOne({
           IF r.out # "return" THEN r
           ELSE IF r.val THEN Return(r.st, AlreadyExists)
           ELSE TheOne({ IF q.out # "return" \/ q.val # Nil THEN q
                         ELSE CheckBatchNew(q.st, Tail(entries)) :
                         q \in {CheckTriggersNew(r.st, Head(entries).triggers)} }) :
           r \in {CheckJobExists(h, Head(entries).job.key)} })

RECURSIVE StoreTriggers(_, _)
StoreTriggers(h, triggers) ==
    IF triggers = << >>
    THEN Return(h, Nil)
    ELSE TheOne({ IF r.out # "return" \/ r.val # Nil THEN r
                  ELSE StoreTriggers(r.st, Tail(triggers)) :
                  r \in {StoreTrigger(h, Head(triggers), TRUE)} })

\* The second loop of StoreJobsAndTriggers.
RECURSIVE StoreBatch(_, _)
StoreBatch(h, entries) ==
    IF entries = << >>
    THEN Return(h, Nil)
    ELSE TheOne({
           IF r.out # "return" \/ r.val # Nil THEN r
           ELSE TheOne({ IF q.out # "return" \/ q.val # Nil THEN q
                         ELSE StoreBatch(q.st, Tail(entries)) :
                         q \in {StoreTriggers(r.st, Head(entries).triggers)} }) :
           r \in {StoreJob(h, Head(entries).job, TRUE)} })

\* first and second are the orders in which the two range loops visit the map.
StoreJobsAndTriggers(st, first, second, replace) ==
    WithLock(st,
        TheOne({ IF r.out # "return" \/ r.val # Nil THEN r
                 ELSE StoreBatch(r.st, second) :
                 r \in {IF ~replace THEN CheckBatchNew(Held(st), first)
                        ELSE Return(Held(st), Nil)} }))

\* [st, out, val] with val = [found, err]
RECURSIVE RemoveJobsLoop(_, _, _)
RemoveJobsLoop(h, keys, allFound) ==
    IF keys = << >>
    THEN Return(h, [found |-> allFound, err |-> Nil])
    ELSE TheOne({ IF r.out # "return" THEN r
                  ELSE IF r.val.err # Nil
                       THEN Return(r.st, [found |-> FALSE, err |-> r.val.err])
                       ELSE RemoveJobsLoop(r.st, Tail(keys), r.val.found /\ allFound) :
                  r \in {RemoveJob(h, Head(keys))} })

RemoveJobs(st, keys) ==
    WithLock(st, RemoveJobsLoop(Held(st), keys, TRUE))

RECURSIVE RemoveTriggersLoop(_, _, _)
RemoveTriggersLoop(h, keys, allFound) ==
    IF keys = << >>
    THEN Return(h, [found |-> allFound, err |-> Nil])
    ELSE TheOne({ IF r.out # "return" THEN r
                  ELSE RemoveTriggersLoop(r.st, Tail(keys), r.val /\ allFound) :
                  r \in {RemoveTrigger(h, Head(keys))} })

RemoveTriggers(st, keys) ==
    WithLock(st, RemoveTriggersLoop(Held(st), keys, TRUE))

\* The maps handed to StoreJobsAndTriggers: at most two jobs, each with at
\* most one trigger (a trigger of that job).
BatchEntries ==
    { [job |-> j, triggers |-> ts] :
          j \in {x \in JobInputs : ~x.durable},
          ts \in { << >> } \cup { <<t>> : t \in {x \in TriggerInputs :
                                     x.key = NewGroupTriggerKey(<<"t">>, GroupG)} } }

BatchOrders ==
    { << >> } \cup { <<e>> : e \in BatchEntries }
    \cup { <<e, f>> : e \in {x \in BatchEntries : KeyGroup(x.job.key) = GroupG
                                                   /\ x.triggers # << >>
                                                   /\ x.triggers[1].jobKey = x.job.key},
                      f \in {x \in BatchEntries : KeyGroup(x.job.key) = GroupH
                                                   /\ x.triggers = << >>} }

\* The orders a range over the map with the entries of order o can take.
Reorders(o) == IF Len(o) = 2 THEN {o, <<o[2], o[1]>>} ELSE {o}

(***************************************************************************)
(* The program                                                             *)
(***************************************************************************)
Call(c, r) ==
    \E v \in {r} :
        /\ store' = v.st
        /\ last' = [call |-> c, pre |-> store, out |-> v.out, val |-> v.val]
        /\ UNCHANGED client

\* A caller that holds nothing.
NoClient == [op |-> "none"]

NoCall ==
    [call |-> [op |-> "NewRAMJobStore"], pre |-> NewRAMJobStore,
     out |-> "return", val |-> Nil]

Init ==
    /\ store = NewRAMJobStore
    /\ last = NoCall
    /\ client = NoClient

DoStoreJob ==
    \E j \in JobInputs, rep \in BOOLEAN :
        Call([op |-> "StoreJob", job |-> j, replaceExisting |-> rep],
             StoreJob(store, j, rep))

DoRemoveJob ==
    \E k \in JobKeyInputs :
        Call([op |-> "RemoveJob", key |-> k], RemoveJob(store, k))

DoStoreTrigger ==
    \E t \in TriggerInputs, rep \in BOOLEAN :
        Call([op |-> "StoreTrigger", trigger |-> t, replaceExisting |-> rep],
             StoreTrigger(store, t, rep))

DoRemoveTrigger ==
    \E k \in TriggerKeyInputs :
        Call([op |-> "RemoveTrigger", key |-> k], RemoveTrigger(store, k))

DoStoreJobAndTrigger ==
    \E j \in JobInputs, t \in TriggerInputs :
        Call([op |-> "StoreJobAndTrigger", job |-> j, trigger |-> t],
             StoreJobAndTrigger(store, j, t))

DoStoreJobsAndTriggers ==
    \E o \in BatchOrders, rep \in BOOLEAN :
        \E second \in Reorders(o) :
            Call([op |-> "StoreJobsAndTriggers", first |-> o, second |-> second,
                  replace |-> rep],
                 StoreJobsAndTriggers(store, o, second, rep))

DoRemoveJobs ==
    \E keys \in SeqsUpTo(JobKeyInputs, MaxKeys) :
        Call([op |-> "RemoveJobs", keys |-> keys], RemoveJobs(store, keys))

DoRemoveTriggers ==
    \E keys \in SeqsUpTo(TriggerKeyInputs, MaxKeys) :
        Call([op |-> "RemoveTriggers", keys |-> keys], RemoveTriggers(store, keys))

Next ==
    \/ DoStoreJob
    \/ DoRemoveJob
    \/ DoStoreTrigger
    \/ DoRemoveTrigger
    \/ DoStoreJobAndTrigger
    \/ DoStoreJobsAndTriggers
    \/ DoRemoveJobs
    \/ DoRemoveTriggers

Spec == Init /\ [][Next]_vars

(***************************************************************************)
(* Callers that build jobs with a JobBuilder, retrieve them and change     *)
(* what they got                                                           *)
(***************************************************************************)
\* Most dirtyFlagMap objects and most JobBuilder objects ever allocated.
MaxObjects == 3

DataKey == "x"

DataValues == {0, 1}

BuilderKeyInputs ==
    { NewGroupJobKey(<<"a">>, GroupG), NewGroupJobKey(<<"b">>, GroupG) }

\* NewJobDataMap(): a new, empty dirtyFlagMap.
NewJobDataMap == [entries |-> EmptyMap, dirty |-> FALSE]

\* &JobBuilder{} followed by WithJobKey(key): the heap and the new pointer.
\* [h, b]
NewJobBuilder(h, key) ==
    LET b == NewPointer(h.builders) IN
    [h |-> [h EXCEPT !.builders = MapPut(@, b, [Key |-> key, DataMap |-> NilPointer])],
     b |-> b]

\* b.UsingJobData(key, value)
UsingJobData(h, b, key, value) ==
    LET fresh == h.builders[b].DataMap = NilPointer
        m     == IF fresh THEN NewPointer(h.maps) ELSE h.builders[b].DataMap
        old   == IF fresh THEN NewJobDataMap ELSE h.maps[m]
    IN  [h EXCEPT !.maps = MapPut(@, m, DirtyFlagMapPut(old, key, value)),
                  !.builders[b].DataMap = m]

\* b.Build(): the job shares the builder's DataMap and points to the builder;
\* durable is left at its zero value.
Build(h, b) ==
    [key |-> h.builders[b].Key, durable |-> FALSE,
     dataMap |-> h.builders[b].DataMap, builder |-> b]

\* The entries of a data map as a caller reads them: << >> for a nil map.
EntriesOf(h, m) == IF m = NilPointer THEN << >> ELSE <<h.maps[m].entries>>

\* The values a RetrieveJob(key) made now hands out: the job's key and
\* durability, the entries of its data map, and the key and the entries of
\* the data map of its builder.
Observed(st, key) ==
    TheOne({ IF r.out # "return" \/ r.val = << >>
             THEN << >>
             ELSE << [key         |-> r.val[1].key,
                      durable     |-> r.val[1].durable,
                      data        |-> EntriesOf(r.st, r.val[1].dataMap),
                      builderKey  |-> r.st.builders[r.val[1].builder].Key,
                      builderData |-> EntriesOf(r.st,
                                         r.st.builders[r.val[1].builder].DataMap)] >> :
             r \in {RetrieveJob(st, key)} })

\* job := (&JobBuilder{}).WithJobKey(key)[.UsingJobData("x", v)].Build();
\* s.StoreJob(job, rep)
ClientBuildAndStore ==
    /\ Cardinality(DOMAIN store.builders) < MaxObjects
    /\ Cardinality(DOMAIN store.maps) < MaxObjects
    /\ \E key \in BuilderKeyInputs, data \in {<< >>} \cup {<<v>> : v \in DataValues},
          rep \in BOOLEAN :
          \E nb \in {NewJobBuilder(store, key)} :
          \E h \in {IF data = << >> THEN nb.h
                    ELSE UsingJobData(nb.h, nb.b, DataKey, data[1])} :
          \E r \in {StoreJob(h, Build(h, nb.b), rep)} :
              /\ store' = r.st
              /\ last' = [call |-> [op |-> "StoreJob", job |-> Build(h, nb.b),
                                    replaceExisting |-> rep],
                          pre |-> store, out |-> r.out, val |-> r.val]
              /\ client' = NoClient

\* c := s.RetrieveJob(key): the caller holds the clone c and remembers what
\* the store handed out.
ClientRetrieveJob ==
    /\ Cardinality(DOMAIN store.maps) < MaxObjects
    /\ \E key \in BuilderKeyInputs :
          \E r \in {RetrieveJob(store, key)} :
              /\ r.val # << >>
              /\ store' = r.st
              /\ last' = [call |-> [op |-> "RetrieveJob", key |-> key],
                          pre |-> store, out |-> r.out, val |-> r.val]
              /\ client' = [op |-> "RetrieveJob", key |-> key, held |-> r.val[1],
                            before |-> Observed(store, key)]

\* c.JobDataMap().Put("x", v) on the clone the caller holds.
ClientPut ==
    /\ client.op # "none"
    /\ client.held.dataMap # NilPointer
    /\ \E v \in DataValues :
          /\ store' = [store EXCEPT !.maps[client.held.dataMap] =
                                        DirtyFlagMapPut(@, DataKey, v)]
          /\ client' = [client EXCEPT !.op = "Put"]
          /\ UNCHANGED last

\* c.JobBuilder().UsingJobData("x", v) on the clone the caller holds.
ClientUsingJobData ==
    /\ client.op # "none"
    /\ client.held.builder # NilPointer
    /\ Cardinality(DOMAIN store.maps) < MaxObjects
    /\ \E v \in DataValues :
          /\ store' = UsingJobData(store, client.held.builder, DataKey, v)
          /\ client' = [client EXCEPT !.op = "UsingJobData"]
          /\ UNCHANGED last

\* job.JobDataMap().Put("x", v) on the job the caller built and handed to the
\* StoreJob that returned last: the caller still holds that job.
ClientPutStored ==
    /\ last.call.op \in {"StoreJob", "JobDataMap.Put"}
    /\ last.out = "return"
    /\ last.call.job.dataMap # NilPointer
    /\ \E v \in DataValues :
          /\ store' = [store EXCEPT !.maps[last.call.job.dataMap] =
                                        DirtyFlagMapPut(@, DataKey, v)]
          /\ last' = [call |-> [op |-> "JobDataMap.Put", job |-> last.call.job,
                                value |-> v],
                      pre |-> store, out |-> "return", val |-> Nil]
          /\ client' = NoClient

NextClone ==
    \/ ClientBuildAndStore
    \/ ClientRetrieveJob
    \/ ClientPut
    \/ ClientUsingJobData
    \/ ClientPutStored

SpecClone == Init /\ [][NextClone]_vars

(***************************************************************************)
(* Callers that build keys and read them back                              *)
(***************************************************************************)
\* Longest name and longest group string a key is built from.
MaxLen == 2

KeyChars == {"a", "b", Dot}

KeyStrings == SeqsUpTo(KeyChars, MaxLen)

\* What the caller holds: the arguments, the key, and what its methods return.
KeyRead(op, name, group, key) ==
    [op |-> op, name |-> name, group |-> group, key |-> key,
     Name |-> KeyName(key), Group |-> KeyGroup(key), String |-> KeyString(key)]

BuildGroupJobKey ==
    \E name \in KeyStrings, group \in KeyStrings :
        /\ client' = KeyRead("NewGroupJobKey", name, group, NewGroupJobKey(name, group))
        /\ UNCHANGED <<store, last>>

BuildGroupTriggerKey ==
    \E name \in KeyStrings, group \in KeyStrings :
        /\ client' = KeyRead("NewGroupTriggerKey", name, group,
                             NewGroupTriggerKey(name, group))
        /\ UNCHANGED <<store, last>>

BuildJobKey ==
    \E name \in KeyStrings :
        /\ client' = KeyRead("NewJobKey", name, DEFAULT_GROUP, NewJobKey(name))
        /\ UNCHANGED <<store, last>>

BuildTriggerKey ==
    \E name \in KeyStrings :
        /\ client' = KeyRead("NewTriggerKey", name, DEFAULT_GROUP, NewTriggerKey(name))
        /\ UNCHANGED <<store, last>>

NextKey ==
    \/ BuildGroupJobKey
    \/ BuildGroupTriggerKey
    \/ BuildJobKey
    \/ BuildTriggerKey

SpecKey == Init /\ [][NextKey]_vars

\* What the caller holds after comparing two keys: the arguments of both, the
\* keys, what Equals returns, and whether both address one entry of a map
\* indexed by key.String() (jobsByKey, triggersByKey).
KeyCompare(op, name, group, key, otherName, otherGroup, other) ==
    [op |-> op, name |-> name, group |-> group, key |-> key,
     otherName |-> otherName, otherGroup |-> otherGroup, other |-> other,
     Equals |-> KeyEquals(key, other),
     sameEntry |-> KeyString(key) = KeyString(other)]

\* A caller that holds two names and two groups.
InitKeyPair ==
    /\ store = NewRAMJobStore
    /\ last = NoCall
    /\ \E name \in KeyStrings, group \in KeyStrings,
          otherName \in KeyStrings, otherGroup \in KeyStrings :
           client = [op |-> "arguments", name |-> name, group |-> group,
                     otherName |-> otherName, otherGroup |-> otherGroup]

EqualsJobKeys ==
    /\ client.op = "arguments"
    /\ client' = KeyCompare("JobKey.Equals", client.name, client.group,
                            NewGroupJobKey(client.name, client.group),
                            client.otherName, client.otherGroup,
                            NewGroupJobKey(client.otherName, client.otherGroup))
    /\ UNCHANGED <<store, last>>

EqualsTriggerKeys ==
    /\ client.op = "arguments"
    /\ client' = KeyCompare("TriggerKey.Equals", client.name, client.group,
                            NewGroupTriggerKey(client.name, client.group),
                            client.otherName, client.otherGroup,
                            NewGroupTriggerKey(client.otherName, client.otherGroup))
    /\ UNCHANGED <<store, last>>

NextKeyPair ==
    \/ EqualsJobKeys
    \/ EqualsTriggerKeys

SpecKeyPair == InitKeyPair /\ [][NextKeyPair]_vars

(***************************************************************************)
(* Goroutines that call the store concurrently                             *)
(*                                                                         *)
(* A goroutine is at "Lock" (at the s.lock.Lock() that opens the method    *)
(* it runs), at "Read" (StoreJob, before the read of the by-key index), at *)
(* "Body" (before the rest of the method), at "Unlock" (before the         *)
(* Unlock), "stuck" (inside a Lock() of the mutex it holds) or "idle".     *)
(***************************************************************************)
MaxGoroutines == 2

Goroutines == 1..MaxGoroutines

\* No goroutine.
NoOwner == 0

ConcJobA == NewGroupJobKey(<<"a">>, GroupG)

ConcTrigger == [key |-> NewGroupTriggerKey(<<"t">>, GroupG), jobKey |-> ConcJobA]

ConcJobs ==
    [key : {ConcJobA}, durable : BOOLEAN, dataMap : {NilPointer},
     builder : {NilPointer}]

\* The calls the goroutines make.
ConcCalls ==
    { [op |-> "StoreJob", job |-> j, replaceExisting |-> r] :
          j \in ConcJobs, r \in BOOLEAN }
    \cup { [op |-> "StoreTrigger", trigger |-> ConcTrigger, replaceExisting |-> r] :
               r \in BOOLEAN }
    \cup { [op |-> "StoreJobAndTrigger", job |-> j, trigger |-> ConcTrigger] :
               j \in {x \in ConcJobs : x.key = ConcJobA /\ ~x.durable} }
    \cup { [op |-> "StoreJobsAndTriggers", first |-> o, second |-> o, replace |-> TRUE] :
               o \in { << >>, <<[job |-> CHOOSE x \in ConcJobs :
                                             x.key = ConcJobA /\ ~x.durable,
                                 triggers |-> << >>]>> } }
    \cup { [op |-> o, key |-> ConcJobA] :
               o \in {"RemoveJob", "RetrieveJob", "TriggersForJob", "CheckJobExists"} }
    \cup { [op |-> o, key |-> ConcTrigger.key] :
               o \in {"RemoveTrigger", "RetrieveTrigger", "CheckTriggerExists"} }
    \cup { [op |-> "RemoveJobs", keys |-> ks] : ks \in {<< >>, <<ConcJobA>>} }
    \cup { [op |-> "RemoveTriggers", keys |-> ks] : ks \in {<< >>, <<ConcTrigger.key>>} }

\* The method a call names, run from its Lock() to its return on store st.
Apply(c, st) ==
    CASE c.op = "StoreJob" -> StoreJob(st, c.job, c.replaceExisting)
      [] c.op = "RemoveJob" -> RemoveJob(st, c.key)
      [] c.op = "StoreTrigger" -> StoreTrigger(st, c.trigger, c.replaceExisting)
      [] c.op = "RemoveTrigger" -> RemoveTrigger(st, c.key)
      [] c.op = "StoreJobsAndTriggers" ->
             StoreJobsAndTriggers(st, c.first, c.second, c.replace)
      [] c.op = "RemoveJobs" -> RemoveJobs(st, c.keys)
      [] c.op = "RemoveTriggers" -> RemoveTriggers(st, c.keys)
      [] c.op = "RetrieveJob" -> RetrieveJob(st, c.key)
      [] c.op = "RetrieveTrigger" -> RetrieveTrigger(st, c.key)
      [] c.op = "TriggersForJob" -> TriggersForJob(st, c.key)
      [] c.op = "CheckJobExists" -> CheckJobExists(st, c.key)
      [] c.op = "CheckTriggerExists" -> CheckTriggerExists(st, c.key)

\* A Lock() that lets every caller in.
MutexNeverBlocks(st) == TRUE

\* s.lock.Lock() returns only when the mutex is free.
MutexFree(st) == ~st.lock

\* A goroutine that has made no call.
IdleGoroutine ==
    [stage |-> "idle", call |-> [op |-> "none"], sub |-> [op |-> "none"],
     jw |-> NilPointer, existed |-> FALSE, with |-> {}, out |-> "return",
     val |-> Nil]

\* owner: the goroutine whose Lock() returned last and has not unlocked;
\* access: the goroutine that read or wrote the fields of the store last and
\* the owner of the lock at that moment.  Of a goroutine, with: the
\* goroutines that were inside a call at some moment of its (last) call;
\* existed: its call is a StoreJob of a key that was stored when it began.
InitConc ==
    /\ store = NewRAMJobStore
    /\ last = NoCall
    /\ client = [op |-> "go", owner |-> NoOwner,
                 access |-> [by |-> NoOwner, owner |-> NoOwner],
                 g |-> [x \in Goroutines |-> IdleGoroutine]]

\* go s.Method(args): StoreJobAndTrigger starts with its call of StoreJob.
GoCall(g) ==
    /\ client.g[g].stage = "idle"
    /\ \E c \in ConcCalls :
          client' = [client EXCEPT
              !.g = [o \in Goroutines |->
                       IF o = g
                       THEN [stage |-> "Lock", call |-> c,
                             sub |-> IF c.op = "StoreJobAndTrigger"
                                     THEN [op |-> "StoreJob", job |-> c.job,
                                           replaceExisting |-> FALSE]
                                     ELSE c,
                             jw |-> NilPointer,
                             existed |-> (c.op = "StoreJob"
                                          /\ KeyString(c.job.key)
                                                 \in DOMAIN store.jobsByKey),
                             with |-> {x \in Goroutines \ {g} :
                                          client.g[x].stage # "idle"},
                             out |-> "return", val |-> Nil]
                       ELSE IF client.g[o].stage # "idle"
                            THEN [client.g[o] EXCEPT !.with = @ \cup {g}]
                            ELSE client.g[o]]]
    /\ UNCHANGED <<store, last>>

\* s.lock.Lock() returns.
GoLock(g) ==
    /\ client.g[g].stage = "Lock"
    /\ MutexFree(store)
    /\ store' = [store EXCEPT !.lock = TRUE]
    /\ client' = [client EXCEPT
           !.owner = g,
           !.g[g].stage = IF client.g[g].sub.op = "StoreJob" THEN "Read" ELSE "Body"]
    /\ UNCHANGED last

\* StoreJob: jw, exists := s.jobsByKey[...]
GoRead(g) ==
    /\ client.g[g].stage = "Read"
    /\ client' = [client EXCEPT
           !.access = [by |-> g, owner |-> client.owner],
           !.g[g].jw = StoreJobRead(store, client.g[g].sub.job),
           !.g[g].stage = "Body"]
    /\ UNCHANGED <<store, last>>

\* The body of the method up to its return, or up to the Lock() of the held
\* mutex that never returns.
GoBody(g) ==
    /\ client.g[g].stage = "Body"
    /\ \E r \in {IF client.g[g].sub.op = "StoreJob"
                 THEN StoreJobAct(store, client.g[g].sub.job,
                                  client.g[g].sub.replaceExisting, client.g[g].jw)
                 ELSE Apply(client.g[g].sub, [store EXCEPT !.lock = FALSE])} :
          /\ store' = [r.st EXCEPT !.lock = TRUE]
          /\ client' = [client EXCEPT
                 !.access = [by |-> g, owner |-> client.owner],
                 !.g[g].out = r.out,
                 !.g[g].val = r.val,
                 !.g[g].stage = IF r.out = "blocked" THEN "stuck" ELSE "Unlock"]
    /\ UNCHANGED last

\* The (deferred) s.lock.Unlock(), and the return; StoreJobAndTrigger goes on
\* to its call of StoreTrigger when StoreJob returned nil.
GoUnlock(g) ==
    /\ client.g[g].stage = "Unlock"
    /\ store' = [store EXCEPT !.lock = FALSE]
    /\ client' = [client EXCEPT
           !.owner = NoOwner,
           !.g[g].stage =
               IF /\ client.g[g].call.op = "StoreJobAndTrigger"
                  /\ client.g[g].sub.op = "StoreJob"
                  /\ client.g[g].out = "return"
                  /\ client.g[g].val = Nil
               THEN "Lock"
               ELSE "idle",
           !.g[g].sub =
               IF /\ client.g[g].call.op = "StoreJobAndTrigger"
                  /\ client.g[g].sub.op = "StoreJob"
                  /\ client.g[g].out = "return"
                  /\ client.g[g].val = Nil
               THEN [op |-> "StoreTrigger", trigger |-> client.g[g].call.trigger,
                     replaceExisting |-> FALSE]
               ELSE client.g[g].sub]
    /\ UNCHANGED last

NextConc ==
    \E g \in Goroutines :
        \/ GoCall(g)
        \/ GoLock(g)
        \/ GoRead(g)
        \/ GoBody(g)
        \/ GoUnlock(g)

SpecConc == InitConc /\ [][NextConc]_vars

(***************************************************************************)
(* simpleTrigger: the fixed-interval schedule.  A time.Time is the number   *)
(* of ticks since the zero time.Time, a time.Duration a number of ticks;    *)
(* a tick is half a millisecond.  No sum or product of the values below     *)
(* leaves the range of an int64.                                            *)
(***************************************************************************)
\* var zero time.Time; t.IsZero() is t = zero.
zero == 0

REPEAT_INDEFINITELY == -1

\* time.Millisecond, in ticks.
Millisecond == 2

\* Latest instant a caller passes, longest repeatInterval, largest repeatCount,
\* largest timesTriggered.
MaxTime == 5
MaxInterval == 2
MaxRepeat == 2
MaxTriggered == 1

Times == zero..MaxTime
Intervals == 0..MaxInterval
RepeatCounts == REPEAT_INDEFINITELY..MaxRepeat

\* Go's integer division truncates toward zero; the divisor is not 0.
GoDiv(a, b) ==
    IF (a >= 0) = (b > 0)
    THEN (IF a >= 0 THEN a ELSE -a) \div (IF b > 0 THEN b ELSE -b)
    ELSE -((IF a >= 0 THEN a ELSE -a) \div (IF b > 0 THEN b ELSE -b))

\* &simpleTrigger{repeatInterval: ..., repeatCount: ...}; a literal written
\* inside the package also chooses timesTriggered and complete.
NewSimpleTrigger(repeatInterval, repeatCount, timesTriggered, complete) ==
    [startTime |-> zero, endTime |-> zero,
     repeatInterval |-> repeatInterval, repeatCount |-> repeatCount,
     timesTriggered |-> timesTriggered, complete |-> complete]

SetStartTime(t, startTime) ==
    IF startTime = zero
    THEN [t |-> t, err |-> "Start time cannot be null"]
    ELSE IF t.endTime # zero /\ startTime # zero /\ t.endTime < startTime
    THEN [t |-> t, err |-> "End time cannot be before start time"]
    ELSE [t |-> [t EXCEPT !.startTime = startTime], err |-> Nil]

\* SetEndTime without its test.
SetEndTimeUnchecked(t, endTime) ==
    [t |-> [t EXCEPT !.endTime = endTime], err |-> Nil]

SetEndTime(t, endTime) ==
    IF t.startTime # zero /\ endTime # zero /\ t.startTime > endTime
    THEN [t |-> t, err |-> "End time cannot be before start time"]
    ELSE [t |-> [t EXCEPT !.endTime = endTime], err |-> Nil]

\* FireTimeAfter without the return of startTime for a moment before it.
FireTimeAfterNoStart(t, afterTime, now) ==
    IF t.complete
    THEN [out |-> "return", val |-> zero, at |-> "complete"]
    ELSE IF t.timesTriggered > t.repeatCount /\ t.repeatCount # REPEAT_INDEFINITELY
    THEN [out |-> "return", val |-> zero, at |-> "timesTriggered"]
    ELSE LET after == IF afterTime = zero THEN now ELSE afterTime IN
    IF t.repeatCount = 0 /\ after > t.startTime
    THEN [out |-> "return", val |-> zero, at |-> "repeatCountZero"]
    ELSE IF t.endTime # zero /\ t.endTime < after
    THEN [out |-> "return", val |-> zero, at |-> "endBeforeAfter"]
    ELSE IF t.repeatInterval = 0
    THEN [out |-> "panic", val |-> zero, at |-> "divide"]
    ELSE LET numberOfTimesExecuted == GoDiv(after - t.startTime, t.repeatInterval) + 1 IN
    IF numberOfTimesExecuted > t.repeatCount /\ t.repeatCount # REPEAT_INDEFINITELY
    THEN [out |-> "return", val |-> zero, at |-> "repeatCount"]
    ELSE LET fireTime == t.startTime + numberOfTimesExecuted * t.repeatInterval IN
    IF t.endTime < fireTime
    THEN [out |-> "return", val |-> zero, at |-> "endBeforeFire"]
    ELSE [out |-> "return", val |-> fireTime, at |-> "fireTime"]

\* FireTimeAfter that ignores complete and counts timesTriggered against
\* REPEAT_INDEFINITELY as against any other repeatCount.
FireTimeAfterCountsAlways(t, afterTime, now) ==
    IF t.timesTriggered > t.repeatCount
    THEN [out |-> "return", val |-> zero, at |-> "timesTriggered"]
    ELSE LET after == IF afterTime = zero THEN now ELSE afterTime IN
    IF t.repeatCount = 0 /\ after > t.startTime
    THEN [out |-> "return", val |-> zero, at |-> "repeatCountZero"]
    ELSE IF t.endTime # zero /\ t.endTime < after
    THEN [out |-> "return", val |-> zero, at |-> "endBeforeAfter"]
    ELSE IF after < t.startTime
    THEN [out |-> "return", val |-> t.startTime, at |-> "startTime"]
    ELSE IF t.repeatInterval = 0
    THEN [out |-> "panic", val |-> zero, at |-> "divide"]
    ELSE LET numberOfTimesExecuted == GoDiv(after - t.startTime, t.repeatInterval) + 1 IN
    IF numberOfTimesExecuted > t.repeatCount /\ t.repeatCount # REPEAT_INDEFINITELY
    THEN [out |-> "return", val |-> zero, at |-> "repeatCount"]
    ELSE LET fireTime == t.startTime + numberOfTimesExecuted * t.repeatInterval IN
    IF t.endTime < fireTime
    THEN [out |-> "return", val |-> zero, at |-> "endBeforeFire"]
    ELSE [out |-> "return", val |-> fireTime, at |-> "fireTime"]

\* FireTimeAfter(afterTime); now is what time.Now() returns if it is called,
\* at names the return statement taken.  A division by a zero repeatInterval
\* panics.
FireTimeAfter(t, afterTime, now) ==
    IF t.complete
    THEN [out |-> "return", val |-> zero, at |-> "complete"]
    ELSE IF t.timesTriggered > t.repeatCount /\ t.repeatCount # REPEAT_INDEFINITELY
    THEN [out |-> "return", val |-> zero, at |-> "timesTriggered"]
    ELSE LET after == IF afterTime = zero THEN now ELSE afterTime IN
    IF t.repeatCount = 0 /\ after > t.startTime
    THEN [out |-> "return", val |-> zero, at |-> "repeatCountZero"]
    ELSE IF t.endTime # zero /\ t.endTime < after
    THEN [out |-> "return", val |-> zero, at |-> "endBeforeAfter"]
    ELSE IF after < t.startTime
    THEN [out |-> "return", val |-> t.startTime, at |-> "startTime"]
    ELSE IF t.repeatInterval = 0
    THEN [out |-> "panic", val |-> zero, at |-> "divide"]
    ELSE LET numberOfTimesExecuted == GoDiv(after - t.startTime, t.repeatInterval) + 1 IN
    IF numberOfTimesExecuted > t.repeatCount /\ t.repeatCount # REPEAT_INDEFINITELY
    THEN [out |-> "return", val |-> zero, at |-> "repeatCount"]
    ELSE LET fireTime == t.startTime + numberOfTimesExecuted * t.repeatInterval IN
    IF t.endTime < fireTime
    THEN [out |-> "return", val |-> zero, at |-> "endBeforeFire"]
    ELSE [out |-> "return", val |-> fireTime, at |-> "fireTime"]

\* computeNumTimesFiredBetween that rounds up.
computeNumTimesFiredBetweenCeil(t, start, end) ==
    IF t.repeatInterval < Millisecond
    THEN 0
    ELSE GoDiv((end - start) + (t.repeatInterval - 1), t.repeatInterval)

computeNumTimesFiredBetween(t, start, end) ==
    IF t.repeatInterval < Millisecond
    THEN 0
    ELSE GoDiv(end - start, t.repeatInterval)

FireTimeBefore(t, endTime) ==
    IF endTime < t.startTime
    THEN zero
    ELSE \* numFires
         t.startTime
           + computeNumTimesFiredBetween(t, t.startTime, endTime) * t.repeatInterval

\* FinalFireTime that always takes startTime + repeatCount * repeatInterval
\* for a finite repeatCount.
FinalFireTimeIgnoresEnd(t) ==
    IF t.repeatCount = 0
    THEN t.startTime
    ELSE IF t.repeatCount = REPEAT_INDEFINITELY
    THEN IF t.endTime = zero THEN zero ELSE FireTimeBefore(t, t.endTime)
    ELSE t.startTime + t.repeatCount * t.repeatInterval

FinalFireTime(t) ==
    IF t.repeatCount = 0
    THEN t.startTime
    ELSE IF t.repeatCount = REPEAT_INDEFINITELY
    THEN IF t.endTime = zero THEN zero ELSE FireTimeBefore(t, t.endTime)
    ELSE LET lastTrigger == t.startTime + t.repeatCount * t.repeatInterval IN
         IF t.endTime = zero \/ lastTrigger < t.endTime
         THEN lastTrigger
         ELSE FireTimeBefore(t, t.endTime)

(***************************************************************************)
(* A caller that holds one simpleTrigger and calls its methods              *)
(***************************************************************************)
\* What the caller holds: the trigger, the trigger before the last call, the
\* call's argument, the clock reading, and what the call returned; at is the
\* return statement FireTimeAfter took, or the error a setter returned.
TriggerClient(op, t, pre, arg, now, out, val, at) ==
    [op |-> op, t |-> t, pre |-> pre, arg |-> arg, now |-> now,
     out |-> out, val |-> val, at |-> at]

InitTrigger ==
    /\ store = NewRAMJobStore
    /\ last = NoCall
    /\ \E t \in {NewSimpleTrigger(0, 0, 0, FALSE)} :
           client = TriggerClient("Build", t, t, zero, zero, "return", zero, "")

DoNewSimpleTrigger ==
    \E repeatInterval \in Intervals, repeatCount \in RepeatCounts,
       timesTriggered \in 0..MaxTriggered, complete \in BOOLEAN :
        /\ \E t \in {NewSimpleTrigger(repeatInterval, repeatCount,
                                      timesTriggered, complete)} :
               client' = TriggerClient("Build", t, t, zero, zero,
                                       "return", zero, "")
        /\ UNCHANGED <<store, last>>

DoSetStartTime ==
    \E startTime \in Times :
        /\ \E r \in {SetStartTime(client.t, startTime)} :
               client' = TriggerClient("SetStartTime", r.t, client.t, startTime, zero,
                                       "return", zero, r.err)
        /\ UNCHANGED <<store, last>>

DoSetEndTime ==
    \E endTime \in Times :
        /\ \E r \in {SetEndTime(client.t, endTime)} :
               client' = TriggerClient("SetEndTime", r.t, client.t, endTime, zero,
                                       "return", zero, r.err)
        /\ UNCHANGED <<store, last>>

\* time.Now() is read only for a zero afterTime, and is never the zero time.
DoFireTimeAfter ==
    \E afterTime \in Times, now \in (Times \ {zero}) :
        /\ afterTime # zero => now = MaxTime
        /\ \E r \in {FireTimeAfter(client.t, afterTime, now)} :
               client' = TriggerClient("FireTimeAfter", client.t, client.t, afterTime,
                                       IF afterTime = zero THEN now ELSE zero,
                                       r.out, r.val, r.at)
        /\ UNCHANGED <<store, last>>

DoFireTimeBefore ==
    \E endTime \in Times :
        /\ client' = TriggerClient("FireTimeBefore", client.t, client.t, endTime, zero,
                                   "return", FireTimeBefore(client.t, endTime), "")
        /\ UNCHANGED <<store, last>>

DoFinalFireTime ==
    /\ client' = TriggerClient("FinalFireTime", client.t, client.t, zero, zero,
                               "return", FinalFireTime(client.t), "")
    /\ UNCHANGED <<store, last>>

NextTrigger ==
    \/ DoNewSimpleTrigger
    \/ DoSetStartTime
    \/ DoSetEndTime
    \/ DoFireTimeAfter
    \/ DoFireTimeBefore
    \/ DoFinalFireTime

SpecTrigger == InitTrigger /\ [][NextTrigger]_vars

(***************************************************************************)
(* dirtyFlagMap on its own: a caller that holds two maps, m and o.  The     *)
(* values stored are comparable with Go's !=.                               *)
(***************************************************************************)
BagKeys == {<<"a">>, <<"a", "b">>, <<"b">>}

\* NewDirtyFlagMap()
NewDirtyFlagMap == [entries |-> EmptyMap, dirty |-> FALSE]

ClearDirtyFlag(m) == [m EXCEPT !.dirty = FALSE]

\* m.PutAll(o)
DirtyFlagMapPutAll(m, o) == PutEntries(m, o, DOMAIN o.entries)

\* m.Remove(key): the value read from the map is nil when the key is absent.
\* [m, val]
DirtyFlagMapRemove(m, key) ==
    IF key \in DOMAIN m.entries
    THEN [m |-> [entries |-> MapDelete(m.entries, key), dirty |-> TRUE],
          val |-> <<m.entries[key]>>]
    ELSE [m |-> m, val |-> << >>]

\* The orders in which a range over a Go map can visit its keys.
RangeOrders(entries) ==
    { order \in [1..Cardinality(DOMAIN entries) -> DOMAIN entries] :
        \A i, j \in DOMAIN order : i # j => order[i] # order[j] }

\* sort.Sort(sort.StringSlice(keys)): for a short slice an insertion sort,
\* Less being keys[i] < keys[j].
RECURSIVE InsertSorted(_, _)
InsertSorted(sorted, key) ==
    IF sorted = << >> \/ StringsCompare(key, sorted[Len(sorted)]) >= 0
    THEN Append(sorted, key)
    ELSE Append(InsertSorted(SubSeq(sorted, 1, Len(sorted) - 1), key),
                sorted[Len(sorted)])

RECURSIVE SortStrings(_)
SortStrings(keys) ==
    IF keys = << >>
    THEN << >>
    ELSE InsertSorted(SortStrings(SubSeq(keys, 1, Len(keys) - 1)), keys[Len(keys)])

\* Keys that returns the keys in the order the range visited them.
DirtyFlagMapKeysUnsorted(m, order) == order

\* m.Keys(); order is the order in which the range visits m.entries.
DirtyFlagMapKeys(m, order) == SortStrings(order)

\* m.Values()
DirtyFlagMapValues(m, order) ==
    LET keys == DirtyFlagMapKeys(m, order)
    IN  [i \in 1..Len(keys) |-> m.entries[keys[i]]]

\* m.Entries()
DirtyFlagMapEntries(m, order) ==
    LET keys == DirtyFlagMapKeys(m, order)
    IN  [i \in 1..Len(keys) |-> [key |-> keys[i], value |-> m.entries[keys[i]]]]

\* What the caller holds: the two maps, the two maps before the last call,
\* which map the call was made on, its arguments, and what it returned.
BagClient(op, on, m, o, pre, preO, key, value, val) ==
    [op |-> op, on |-> on, m |-> m, o |-> o, pre |-> pre, preO |-> preO,
     key |-> key, value |-> value, val |-> val]

InitBag ==
    /\ store = NewRAMJobStore
    /\ last = NoCall
    /\ client = BagClient("NewDirtyFlagMap", "m", NewDirtyFlagMap, NewDirtyFlagMap,
                          NewDirtyFlagMap, NewDirtyFlagMap, << >>, 0, << >>)

\* The maps after a call on one of them left that map as r.
BagAfter(op, on, r, key, value, val) ==
    BagClient(op, on,
              IF on = "m" THEN r ELSE client.m,
              IF on = "o" THEN r ELSE client.o,
              client.m, client.o, key, value, val)

DoBagPut ==
    \E on \in {"m", "o"}, key \in BagKeys, value \in DataValues :
        /\ client' = BagAfter("Put", on,
                              DirtyFlagMapPut(IF on = "m" THEN client.m ELSE client.o,
                                              key, value),
                              key, value, << >>)
        /\ UNCHANGED <<store, last>>

DoBagRemove ==
    \E on \in {"m", "o"}, key \in BagKeys :
        /\ \E r \in {DirtyFlagMapRemove(IF on = "m" THEN client.m ELSE client.o, key)} :
               client' = BagAfter("Remove", on, r.m, key, 0, r.val)
        /\ UNCHANGED <<store, last>>

DoBagClearDirtyFlag ==
    \E on \in {"m", "o"} :
        /\ client' = BagAfter("ClearDirtyFlag", on,
                              ClearDirtyFlag(IF on = "m" THEN client.m ELSE client.o),
                              << >>, 0, << >>)
        /\ UNCHANGED <<store, last>>

\* m.PutAll(o)
DoBagPutAll ==
    /\ client' = BagAfter("PutAll", "m", DirtyFlagMapPutAll(client.m, client.o),
                          << >>, 0, << >>)
    /\ UNCHANGED <<store, last>>

\* o = m.Clone()
DoBagClone ==
    /\ client' = BagAfter("Clone", "o", DirtyFlagMapClone(client.m), << >>, 0, << >>)
    /\ UNCHANGED <<store, last>>

\* m.Keys(), m.Values() and m.Entries()
DoBagEnumerate ==
    \E order \in RangeOrders(client.m.entries) :
        /\ client' = BagAfter("Keys", "m", client.m, << >>, 0,
                              [Keys |-> DirtyFlagMapKeys(client.m, order),
                               Values |-> DirtyFlagMapValues(client.m, order),
                               Entries |-> DirtyFlagMapEntries(client.m, order)])
        /\ UNCHANGED <<store, last>>

NextBag ==
    \/ DoBagPut
    \/ DoBagRemove
    \/ DoBagClearDirtyFlag
    \/ DoBagPutAll
    \/ DoBagClone
    \/ DoBagEnumerate

SpecBag == InitBag /\ [][NextBag]_vars

(***************************************************************************)
(* treeSet on its own: a caller that holds one set of strings made by       *)
(* NewTreeSet(strings.Compare), and the mathematical set it stands for.     *)
(***************************************************************************)
TreeItems == {<<"a">>, <<"a", "b">>, <<"b">>, <<"b", "a">>}

\* NewTreeSet(compare): no items, and the comparator.
NewTreeSet == [items |-> << >>, compare |-> "strings.Compare"]

\* What the caller holds: the set, the set before the last call, the elements
\* added and not removed since, the call's argument and what it returned.
TreeClient(op, s, pre, present, item, out, val) ==
    [op |-> op, s |-> s, pre |-> pre, present |-> present, item |-> item,
     out |-> out, val |-> val]

InitTree ==
    /\ store = NewRAMJobStore
    /\ last = NoCall
    /\ client = TreeClient("NewTreeSet", NewTreeSet, NewTreeSet, {}, << >>,
                           "return", FALSE)

DoTreeAdd ==
    \E item \in TreeItems :
        /\ \E r \in {TreeSetAdd(client.s, client.s.items, item)} :
               client' = TreeClient("Add", [client.s EXCEPT !.items = r.items],
                                    client.s, client.present \cup {item}, item,
                                    IF r.panic THEN "panic" ELSE "return", FALSE)
        /\ UNCHANGED <<store, last>>

DoTreeRemove ==
    \E item \in TreeItems :
        /\ \E r \in {TreeSetRemove(client.s, client.s.items, item)} :
               client' = TreeClient("Remove", [client.s EXCEPT !.items = r.items],
                                    client.s, client.present \ {item}, item,
                                    IF r.panic THEN "panic" ELSE "return", r.val)
        /\ UNCHANGED <<store, last>>

DoTreeContains ==
    \E item \in TreeItems :
        /\ \E r \in {TreeSetContains(client.s, client.s.items, item)} :
               client' = TreeClient("Contains", client.s, client.s, client.present,
                                    item, IF r.panic THEN "panic" ELSE "return", r.val)
        /\ UNCHANGED <<store, last>>

\* s.Len()
DoTreeLen ==
    /\ client' = TreeClient("Len", client.s, client.s, client.present, << >>,
                            "return", Len(client.s.items))
    /\ UNCHANGED <<store, last>>

NextTree ==
    \/ DoTreeAdd
    \/ DoTreeRemove
    \/ DoTreeContains
    \/ DoTreeLen

SpecTree == InitTree /\ [][NextTree]_vars

(***************************************************************************)
(* TriggerBuilder: a caller that holds a builder and builds a trigger.      *)
(* A nil key, a nil ScheduleBuilder are << >>, a set one is <<value>>.      *)
(***************************************************************************)
BuilderNames == {<<"a">>, <<"a", ".", "b">>}

\* The configurations a caller writes: &TriggerBuilder{...} or the With...,
\* StartAt, EndAt, For... methods, which assign the fields.
TriggerBuilders ==
    [Key : {<< >>} \cup {<<NewGroupTriggerKey(n, GroupG)>> : n \in BuilderNames},
     Description : {"", "desc"},
     StartTime : Times,
     EndTime : Times,
     Priority : {0, 1},
     JobKey : {<< >>} \cup {<<NewGroupJobKey(n, GroupG)>> : n \in BuilderNames},
     DataMap : {NilPointer, 1},
     ScheduleBuilder : {<< >>} \cup
         {<<[repeatInterval |-> i, repeatCount |-> 1]>> : i \in {0, Millisecond}}]

\* t.Key(): the key set, or one made of name and group, or nil.
AbstractTriggerKey(a) ==
    IF a.key = << >>
    THEN IF a.name = << >> THEN << >> ELSE <<NewGroupTriggerKey(a.name, a.group)>>
    ELSE a.key

\* t.JobKey(): made of jobName and jobGroup, nil when jobName is empty.
AbstractTriggerJobKey(a) ==
    IF a.jobName = << >> THEN << >> ELSE <<NewGroupJobKey(a.jobName, a.jobGroup)>>

\* b.Build(): the builder, whose nil ScheduleBuilder and nil Key Build fills
\* in, and the trigger.  The errors of SetStartTime and SetEndTime are
\* dropped.  unique is the name newUniqueName returns.  [b, t]
TriggerBuilderBuild(b, unique) ==
    LET sb == IF b.ScheduleBuilder = << >>
              THEN <<[repeatInterval |-> 0, repeatCount |-> 0]>>
              ELSE b.ScheduleBuilder
        trigger == NewSimpleTrigger(sb[1].repeatInterval, sb[1].repeatCount, 0, FALSE)
        started == SetStartTime(trigger, b.StartTime).t
        ended == SetEndTime(started, b.EndTime).t
        key == IF b.Key = << >>
               THEN <<NewGroupTriggerKey(unique, DEFAULT_GROUP)>>
               ELSE b.Key
    IN  [b |-> [b EXCEPT !.ScheduleBuilder = sb, !.Key = key],
         t |-> [abstractTrigger |->
                    [name |-> KeyName(key[1]), group |-> KeyGroup(key[1]),
                     jobName |-> IF b.JobKey = << >> THEN << >>
                                 ELSE KeyName(b.JobKey[1]),
                     jobGroup |-> IF b.JobKey = << >> THEN << >>
                                  ELSE KeyGroup(b.JobKey[1]),
                     desc |-> b.Description, dataMap |-> b.DataMap,
                     priority |-> b.Priority, key |-> key],
                simpleTrigger |-> ended]]

\* t.TriggerBuilder(), with t.ScheduleBuilder()
SimpleTriggerBuilder(t) ==
    [Key |-> AbstractTriggerKey(t.abstractTrigger),
     Description |-> t.abstractTrigger.desc,
     StartTime |-> t.simpleTrigger.startTime,
     EndTime |-> t.simpleTrigger.endTime,
     Priority |-> t.abstractTrigger.priority,
     JobKey |-> AbstractTriggerJobKey(t.abstractTrigger),
     DataMap |-> t.abstractTrigger.dataMap,
     ScheduleBuilder |-> <<[repeatInterval |-> t.simpleTrigger.repeatInterval,
                            repeatCount |-> t.simpleTrigger.repeatCount]>>]

InitBuilder ==
    /\ store = NewRAMJobStore
    /\ last = NoCall
    /\ \E b \in TriggerBuilders :
           client = [op |-> "TriggerBuilder", b |-> b]

\* trigger := b.Build(), then the trigger's getters and its TriggerBuilder().
DoTriggerBuild ==
    /\ client.op = "TriggerBuilder"
    /\ \E unique \in {<<"u">>} :
       \E r \in {TriggerBuilderBuild(client.b, unique)} :
           client' = [op |-> "Build", b |-> r.b, pre |-> client.b, t |-> r.t,
                      Key |-> AbstractTriggerKey(r.t.abstractTrigger),
                      JobKey |-> AbstractTriggerJobKey(r.t.abstractTrigger),
                      Priority |-> r.t.abstractTrigger.priority,
                      Description |-> r.t.abstractTrigger.desc,
                      StartTime |-> r.t.simpleTrigger.startTime,
                      EndTime |-> r.t.simpleTrigger.endTime,
                      TriggerBuilder |-> SimpleTriggerBuilder(r.t)]
    /\ UNCHANGED <<store, last>>

NextBuilder == DoTriggerBuild

SpecBuilder == InitBuilder /\ [][NextBuilder]_vars

(***************************************************************************)
(* What a caller can observe of a store                                    *)
(***************************************************************************)
JobExists(st, key) ==
    \E r \in {CheckJobExists(st, key)} : r.out = "return" /\ r.val

TriggerExists(st, key) ==
    \E r \in {CheckTriggerExists(st, key)} : r.out = "return" /\ r.val

\* The job RetrieveJob returns is exactly job.
RetrievesJob(st, job) ==
    \E r \in {RetrieveJob(st, job.key)} : r.out = "return" /\ r.val = <<job>>

JobAbsent(st, key) ==
    \E r \in {RetrieveJob(st, key)} : r.out = "return" /\ r.val = << >>

TriggerAbsent(st, key) ==
    \E r \in {RetrieveTrigger(st, key)} : r.out = "return" /\ r.val = << >>

\* The triggers TriggersForJob returns, as a set; {} when the call blocks.
TriggersOf(st, jobKey) ==
    LET r == TriggersForJob([st EXCEPT !.lock = FALSE], jobKey)
    IN  { r.val[i] : i \in 1..Len(r.val) }

\* The keys of the wrappers the ordered set holds.
IndexKeys(st) ==
    { st.tws[st.timeTriggers[i]].trigger.key : i \in 1..Len(st.timeTriggers) }

\* The keys of the wrappers of the trigger list.
ListKeys(st) ==
    { st.tws[st.triggers[i]].trigger.key : i \in 1..Len(st.triggers) }

\* The groups whose by-group map holds the key.
JobGroupsHolding(st, key) ==
    { g \in DOMAIN st.jobsByGroup : KeyString(key) \in DOMAIN st.jobsByGroup[g] }

TriggerGroupsHolding(st, key) ==
    { g \in DOMAIN st.triggersByGroup : KeyString(key) \in DOMAIN st.triggersByGroup[g] }

\* The trigger key is in no index of the store.
TriggerInNoIndex(st, key) ==
    /\ KeyString(key) \notin DOMAIN st.triggersByKey
    /\ TriggerGroupsHolding(st, key) = {}
    /\ key \notin ListKeys(st)
    /\ key \notin IndexKeys(st)

\* The last call was StoreTrigger(t, _), made with the lock free, t's job
\* stored and t's key new: the call by which t becomes a stored trigger.
StoresNewTrigger ==
    /\ last.call.op = "StoreTrigger"
    /\ ~last.pre.lock
    /\ JobExists(last.pre, last.call.trigger.jobKey)
    /\ ~TriggerExists(last.pre, last.call.trigger.key)

\* The job of the trigger of the last call, as stored before the call.
JobOfLastTrigger ==
    last.pre.jws[last.pre.jobsByKey[KeyString(last.call.trigger.jobKey)]].jobDetail

(***************************************************************************)
(* Claims                                                                  *)
(***************************************************************************)
\* C3: a non-durable job j is stored with exactly one trigger t (the last
\* call stored t, and j had no trigger before); then RemoveTrigger(t.Key())
\* returns and CheckJobExists(j.Key()) is false afterwards.
C3_CascadeRemovesJob ==
    (/\ StoresNewTrigger
     /\ ~JobOfLastTrigger.durable
     /\ TriggersOf(last.pre, last.call.trigger.jobKey) = {})
    => \E r \in {RemoveTrigger(store, last.call.trigger.key)} :
           /\ r.out = "return"
           /\ ~JobExists(r.st, last.call.trigger.jobKey)

\* C4: a durable job j is stored with exactly one trigger t; then
\* RemoveTrigger(t.Key()) returns and CheckJobExists(j.Key()) is still true.
C4_DurableJobSurvives ==
    (/\ StoresNewTrigger
     /\ JobOfLastTrigger.durable
     /\ TriggersOf(last.pre, last.call.trigger.jobKey) = {})
    => \E r \in {RemoveTrigger(store, last.call.trigger.key)} :
           /\ r.out = "return"
           /\ JobExists(r.st, last.call.trigger.jobKey)

\* C5: RemoveJob(k) on a stored job k returns, and afterwards the job is in
\* neither the by-key nor a by-group index, RetrieveJob(k) is absent,
\* TriggersForJob(k) is empty and no trigger of the job is in any index.
C5_RemoveJobRemoves ==
    (/\ last.call.op = "RemoveJob"
     /\ ~last.pre.lock
     /\ JobExists(last.pre, last.call.key))
    => /\ last.out = "return"
       /\ ~JobExists(store, last.call.key)
       /\ JobAbsent(store, last.call.key)
       /\ JobGroupsHolding(store, last.call.key) = {}
       /\ TriggersOf(store, last.call.key) = {}
       /\ \A p \in DOMAIN store.tws :
              store.tws[p].trigger.jobKey = last.call.key
              => TriggerInNoIndex(store, store.tws[p].trigger.key)

\* C6: RemoveTrigger(k) on a stored trigger k (the last call stored it)
\* returns true and removes exactly that trigger: k is in no index, is not
\* retrieved and not listed for its job, and every other stored trigger is
\* still stored.
C6_RemoveTriggerRemovesExactlyIt ==
    StoresNewTrigger
    => \E r \in {RemoveTrigger(store, last.call.trigger.key)} :
           /\ r.out = "return"
           /\ r.val = TRUE
           /\ ~TriggerExists(r.st, last.call.trigger.key)
           /\ TriggerAbsent(r.st, last.call.trigger.key)
           /\ TriggerInNoIndex(r.st, last.call.trigger.key)
           /\ \A t \in TriggersOf(r.st, last.call.trigger.jobKey) :
                  t.key # last.call.trigger.key
           /\ \A k \in TriggerKeyInputs \ {last.call.trigger.key} :
                  TriggerExists(last.pre, k)
                  => /\ TriggerExists(r.st, k)
                     /\ RetrieveTrigger(r.st, k).val = RetrieveTrigger(last.pre, k).val

\* C7: a StoreJob(j, replaceExisting) call that finds the lock free returns;
\* on a stored key without replace it fails with AlreadyExists and leaves
\* the store as it was; on a stored key with replace it succeeds,
\* RetrieveJob returns j and exactly one wrapper holds the key, the same in
\* the by-key index and in the map of the key's group and in no other
\* group; on a new key it succeeds and CheckJobExists is true.
C7_StoreJobContract ==
    (last.call.op = "StoreJob" /\ ~last.pre.lock)
    => LET j       == last.call.job
           existed == JobExists(last.pre, j.key)
       IN  /\ last.out = "return"
           /\ (existed /\ ~last.call.replaceExisting)
              => (last.val = AlreadyExists /\ store = last.pre)
           /\ (existed /\ last.call.replaceExisting)
              => /\ last.val = Nil
                 /\ RetrievesJob(store, j)
                 /\ JobGroupsHolding(store, j.key) = {KeyGroup(j.key)}
                 /\ store.jobsByGroup[KeyGroup(j.key)][KeyString(j.key)]
                        = store.jobsByKey[KeyString(j.key)]
                 /\ DOMAIN store.jobsByKey = DOMAIN last.pre.jobsByKey
                 /\ DOMAIN store.jws = DOMAIN last.pre.jws
           /\ ~existed
              => /\ last.val = Nil
                 /\ JobExists(store, j.key)
                 /\ RetrievesJob(store, j)

\* A StoreJob with replace returned nil on a key stored with another value,
\* in a group that holds two jobs.
C7_Witness ==
    /\ last.call.op = "StoreJob"
    /\ ~last.pre.lock
    /\ last.call.replaceExisting
    /\ last.out = "return"
    /\ last.val = Nil
    /\ JobExists(last.pre, last.call.job.key)
    /\ ~RetrievesJob(last.pre, last.call.job)
    /\ RetrievesJob(store, last.call.job)
    /\ Cardinality(DOMAIN store.jobsByGroup[KeyGroup(last.call.job.key)]) = 2

\* C8: StoreTrigger(t, replaceExisting), made with the lock free while t's
\* job key is not stored, fails with JobPersistenceError and t is in no
\* index afterwards.
C8_OrphanTriggerRejected ==
    (/\ last.call.op = "StoreTrigger"
     /\ ~last.pre.lock
     /\ ~JobExists(last.pre, last.call.trigger.jobKey))
    => /\ last.out = "return"
       /\ last.val = JobPersistence
       /\ ~TriggerExists(store, last.call.trigger.key)
       /\ TriggerInNoIndex(store, last.call.trigger.key)

\* C9: with a trigger stored under t's key (the last call stored it),
\* StoreTrigger(t2, false) for any t2 with that key fails with AlreadyExists
\* and leaves the store as it was.
C9_DuplicateTriggerRejected ==
    StoresNewTrigger
    => \A t2 \in {x \in TriggerInputs : x.key = last.call.trigger.key} :
           \E r \in {StoreTrigger(store, t2, FALSE)} :
               /\ r.out = "return"
               /\ r.val = AlreadyExists
               /\ r.st = store

\* C10: with a trigger stored under t's key (the last call stored it, as
\* the only trigger of its job), StoreTrigger(t2, true) for a t2 with that
\* key whose job exists succeeds; afterwards exactly one trigger has the
\* key, in the by-key index, in one group map, once in the list and in the
\* ordered set, it is t2, and the job of the replaced trigger is still
\* stored.
C10_ReplaceSupersedes ==
    StoresNewTrigger
    => \A t2 \in {x \in TriggerInputs : /\ x.key = last.call.trigger.key
                                         /\ JobExists(last.pre, x.jobKey)} :
           \E r \in {StoreTrigger(store, t2, TRUE)} :
               /\ r.out = "return"
               /\ r.val = Nil
               /\ RetrieveTrigger(r.st, t2.key).val = <<t2>>
               /\ TriggerGroupsHolding(r.st, t2.key) = {KeyGroup(t2.key)}
               /\ Cardinality({i \in 1..Len(r.st.triggers) :
                      r.st.tws[r.st.triggers[i]].trigger.key = t2.key}) = 1
               /\ t2.key \in IndexKeys(r.st)
               /\ JobExists(r.st, last.call.trigger.jobKey)

\* C11: a StoreTrigger(t, _) made with the lock free, t's job stored and
\* t's key new succeeds and gives the trigger the state its groups and job
\* call for: PAUSED_BLOCKED when (its group is in pausedTriggerGroups or its
\* job's group is in pausedJobGroups) and its job is in blockedJobs, PAUSED
\* when paused so and not blocked, BLOCKED when blocked and not paused,
\* WAITING otherwise; the trigger is in the ordered set exactly when WAITING.
C11_ClassifiesInitialState ==
    StoresNewTrigger
    => LET t       == last.call.trigger
           paused  == \/ KeyGroup(t.key) \in last.pre.pausedTriggerGroups
                      \/ KeyGroup(t.jobKey) \in last.pre.pausedJobGroups
           blocked == KeyString(t.jobKey) \in last.pre.blockedJobs
           state   == IF paused /\ blocked THEN STATE_PAUSED_BLOCKED
                      ELSE IF paused THEN STATE_PAUSED
                      ELSE IF blocked THEN STATE_BLOCKED
                      ELSE STATE_WAITING
       IN  /\ last.out = "return"
           /\ last.val = Nil
           /\ KeyString(t.key) \in DOMAIN store.triggersByKey
           /\ store.tws[store.triggersByKey[KeyString(t.key)]].state = state
           /\ (t.key \in IndexKeys(store)) <=> (state = STATE_WAITING)

\* C12: after a caller changed the job it got from RetrieveJob(k), by a Put
\* on its data map or through its builder, RetrieveJob(k) hands out the same
\* values as it did before the change.
C12_CloneIndependence ==
    client.op \in {"Put", "UsingJobData"}
    => Observed(store, client.key) = client.before

\* C13: a StoreJobsAndTriggers(batch, false) made with the lock free, while
\* a job key or a trigger key of the batch is stored, fails with
\* AlreadyExists and leaves the store exactly as it was.
C13_BatchFailsBeforeMutating ==
    (/\ last.call.op = "StoreJobsAndTriggers"
     /\ ~last.call.replace
     /\ ~last.pre.lock
     /\ \E i \in 1..Len(last.call.first) :
            \/ JobExists(last.pre, last.call.first[i].job.key)
            \/ \E n \in 1..Len(last.call.first[i].triggers) :
                   TriggerExists(last.pre, last.call.first[i].triggers[n].key))
    => /\ last.out = "return"
       /\ last.val = AlreadyExists
       /\ store = last.pre

\* The result the list operations are to give: the AND over the keys, in
\* order, of "the key is stored when it is processed", every key found
\* being removed.
RECURSIVE AllFound(_, _)
AllFound(stored, keys) ==
    IF keys = << >>
    THEN TRUE
    ELSE (Head(keys) \in stored) /\ AllFound(stored \ {Head(keys)}, Tail(keys))

\* C14: RemoveJobs(keys) and RemoveTriggers(keys), made with the lock free,
\* return (without error) the AND of the per-key found results, and no key
\* of the list is stored afterwards, whatever came before it in the list.
C14_ListRemovalsAreIndependent ==
    /\ (last.call.op = "RemoveJobs" /\ ~last.pre.lock)
       => /\ last.out = "return"
          /\ last.val.err = Nil
          /\ last.val.found =
                 AllFound({k \in JobKeyInputs : JobExists(last.pre, k)}, last.call.keys)
          /\ \A i \in 1..Len(last.call.keys) : ~JobExists(store, last.call.keys[i])
    /\ (last.call.op = "RemoveTriggers" /\ ~last.pre.lock)
       => /\ last.out = "return"
          /\ last.val.err = Nil
          /\ last.val.found =
                 AllFound({k \in TriggerKeyInputs : TriggerExists(last.pre, k)},
                          last.call.keys)
          /\ \A i \in 1..Len(last.call.keys) : ~TriggerExists(store, last.call.keys[i])

\* C15: a StoreJobAndTrigger(j, t) made with the lock free returns; when j's
\* key is stored it fails with AlreadyExists and the store is as it was;
\* when j is new and t's key is stored or t's job is missing once j is
\* stored, it returns that error, j is stored and t is not added; otherwise
\* it returns nil and both are stored.
C15_StoreJobAndTriggerContract ==
    (last.call.op = "StoreJobAndTrigger" /\ ~last.pre.lock)
    => LET j        == last.call.job
           t        == last.call.trigger
           jExisted == JobExists(last.pre, j.key)
           tExisted == TriggerExists(last.pre, t.key)
           jobThere == t.jobKey = j.key \/ JobExists(last.pre, t.jobKey)
       IN  /\ last.out = "return"
           /\ jExisted => (last.val = AlreadyExists /\ store = last.pre)
           /\ (~jExisted /\ tExisted)
              => /\ last.val = AlreadyExists
                 /\ RetrievesJob(store, j)
                 /\ store.triggersByKey = last.pre.triggersByKey
           /\ (~jExisted /\ ~tExisted /\ ~jobThere)
              => /\ last.val = JobPersistence
                 /\ RetrievesJob(store, j)
                 /\ ~TriggerExists(store, t.key)
           /\ (~jExisted /\ ~tExisted /\ jobThere)
              => /\ last.val = Nil
                 /\ RetrievesJob(store, j)
                 /\ RetrieveTrigger(store, t.key).val = <<t>>

\* C16: once a trigger t was to be stored (the last call), TriggersForJob(k)
\* returns, for every job key k, exactly the stored triggers whose job key
\* is k, each once; t is among those of its job.
C16_TriggersForJobExact ==
    StoresNewTrigger
    => \A k \in JobKeyInputs :
           \E r \in {TriggersForJob(store, k)} :
               /\ r.out = "return"
               /\ { r.val[i] : i \in 1..Len(r.val) } =
                      { store.tws[store.triggersByKey[x]].trigger :
                            x \in { y \in DOMAIN store.triggersByKey :
                                    store.tws[store.triggersByKey[y]].trigger.jobKey = k } }
               /\ \A a, b \in 1..Len(r.val) : r.val[a].key = r.val[b].key => a = b
               /\ k = last.call.trigger.jobKey
                  => \E i \in 1..Len(r.val) : r.val[i] = last.call.trigger

\* C19: a RemoveJob(k) or RemoveTrigger(k) made with the lock free for a key
\* that is not stored returns not-found without an error and leaves the
\* store as it was; and after any removal that returned, removing the same
\* key again reports not-found.
C19_RemoveMissingIsNoOp ==
    /\ (last.call.op = "RemoveJob" /\ ~last.pre.lock)
       => /\ ~JobExists(last.pre, last.call.key)
             => /\ last.out = "return"
                /\ last.val = [found |-> FALSE, err |-> Nil]
                /\ store = last.pre
          /\ last.out = "return"
             => \E r \in {RemoveJob(store, last.call.key)} :
                    r.out = "return" /\ r.val = [found |-> FALSE, err |-> Nil]
    /\ (last.call.op = "RemoveTrigger" /\ ~last.pre.lock)
       => /\ ~TriggerExists(last.pre, last.call.key)
             => /\ last.out = "return"
                /\ last.val = FALSE
                /\ store = last.pre
          /\ last.out = "return"
             => \E r \in {RemoveTrigger(store, last.call.key)} :
                    r.out = "return" /\ r.val = FALSE

\* A RemoveJob of a key that is not stored returned, on a store that holds
\* two jobs, after another job had been stored.
C19_Witness ==
    /\ last.call.op = "RemoveJob"
    /\ ~last.pre.lock
    /\ ~JobExists(last.pre, last.call.key)
    /\ last.out = "return"
    /\ last.val = [found |-> FALSE, err |-> Nil]
    /\ Cardinality(DOMAIN store.jobsByKey) = 2
    /\ store = last.pre

\* C20: for a key built from a name and a group, Name() is the name, Group()
\* is the group and String() is group + "." + name; a key built from a name
\* alone has the group DEFAULT.
C20_KeyRoundTrip ==
    client.op \in {"NewGroupJobKey", "NewGroupTriggerKey", "NewJobKey", "NewTriggerKey"}
    => /\ client.Name = client.name
       /\ client.Group = client.group
       /\ client.String = client.group \o <<".">> \o client.name
       /\ client.op \in {"NewJobKey", "NewTriggerKey"}
          => client.Group = <<"D", "E", "F", "A", "U", "L", "T">>

\* The goroutines between the return of a Lock() and their Unlock().
Inside == { g \in Goroutines : client.g[g].stage \in {"Read", "Body", "Unlock", "stuck"} }

\* C17: with concurrent callers, at most one goroutine is between a Lock()
\* and its Unlock(), that goroutine is the owner of the held lock, and the
\* goroutine that read or wrote the fields of the store last owned the lock
\* when it did.
C17_LockDiscipline ==
    client.op = "go"
    => /\ Cardinality(Inside) <= 1
       /\ \A g \in Inside : client.owner = g /\ store.lock
       /\ client.access.by = client.access.owner

\* Goroutine 1 has written the store in StoreJob and is about to unlock,
\* while goroutine 2 waits at the Lock() of its own StoreJob.
C17_Witness ==
    /\ client.op = "go"
    /\ client.g[1].stage = "Unlock"
    /\ client.g[1].call.op = "StoreJob"
    /\ client.access = [by |-> 1, owner |-> 1]
    /\ client.g[2].stage = "Lock"
    /\ client.g[2].call.op = "StoreJob"
    /\ Cardinality(DOMAIN store.jobsByKey) = 1

\* Goroutines a and b have returned from StoreJob(_, false) calls for the
\* same key, which was not stored when either began, and the two calls ran
\* at the same time, and at the same time as no other call.
BothStoredConcurrently(a, b) ==
    /\ a # b
    /\ \A g \in {a, b} :
           /\ client.g[g].stage = "idle"
           /\ client.g[g].call.op = "StoreJob"
           /\ ~client.g[g].call.replaceExisting
           /\ ~client.g[g].existed
    /\ client.g[a].call.job.key = client.g[b].call.job.key
    /\ client.g[a].with = {b}
    /\ client.g[b].with = {a}

\* C18: when two goroutines call StoreJob(_, false) concurrently for the
\* same key that is not stored, whatever the interleaving one call returns
\* nil and the other AlreadyExists, and afterwards one wrapper holds the key,
\* with the job of the call that returned nil.
C18_StoreJobAtomic ==
    client.op = "go"
    => \A a, b \in Goroutines :
           BothStoredConcurrently(a, b)
           => /\ client.g[a].out = "return" /\ client.g[b].out = "return"
              /\ {client.g[a].val, client.g[b].val} = {Nil, AlreadyExists}
              /\ JobGroupsHolding(store, client.g[a].call.job.key)
                     = {KeyGroup(client.g[a].call.job.key)}
              /\ \A g \in {a, b} :
                     client.g[g].val = Nil => RetrievesJob(store, client.g[g].call.job)

\* Both goroutines have returned from concurrent StoreJob(_, false) calls
\* with different jobs for one new key; goroutine 2, which called second,
\* won.
C18_Witness ==
    /\ client.op = "go"
    /\ BothStoredConcurrently(1, 2)
    /\ client.g[1].call.job # client.g[2].call.job
    /\ client.g[2].with = {1}
    /\ client.g[2].val = Nil
    /\ client.g[1].val = AlreadyExists
    /\ RetrievesJob(store, client.g[2].call.job)

\* C21: two keys are equal, and address the same map entry, exactly when
\* their groups are equal and their names are equal; keys built from different
\* (group, name) pairs are never equal.
C21_EqualIffSamePair ==
    client.op \in {"JobKey.Equals", "TriggerKey.Equals"}
    => /\ client.Equals
          <=> (client.group = client.otherGroup /\ client.name = client.otherName)
       /\ client.sameEntry
          <=> (client.group = client.otherGroup /\ client.name = client.otherName)

\* The moment a FireTimeAfter call asked about: its argument, or the clock
\* reading when the argument was the zero time.
AskedAfter == IF client.arg = zero THEN client.now ELSE client.arg

\* C22: for a trigger that is not complete, with timesTriggered <= repeatCount,
\* a positive repeatInterval, a finite repeatCount >= 1 and no endTime, and for
\* afterTime at or after startTime, FireTimeAfter returns
\* startTime + n * repeatInterval with
\* n = floor((afterTime - startTime) / repeatInterval) + 1 when
\* n <= repeatCount, and the zero time when n > repeatCount.
C22_FireTimeAfterStart ==
    ( /\ client.op = "FireTimeAfter"
      /\ ~client.t.complete
      /\ client.t.repeatCount >= 1
      /\ client.t.timesTriggered <= client.t.repeatCount
      /\ client.t.repeatInterval > 0
      /\ client.t.endTime = zero
      /\ client.t.startTime # zero
      /\ AskedAfter >= client.t.startTime )
    => LET n == ((AskedAfter - client.t.startTime) \div client.t.repeatInterval) + 1
       IN  /\ client.out = "return"
           /\ client.val = IF n <= client.t.repeatCount
                           THEN client.t.startTime + n * client.t.repeatInterval
                           ELSE zero

\* C23: for a trigger that is not complete and has not exceeded its repeat
\* count, FireTimeAfter returns startTime whenever afterTime is before
\* startTime and endTime, if set, is not before afterTime; with repeatCount 0
\* it returns startTime for every afterTime before startTime and the zero time
\* for every afterTime after startTime.
C23_FireTimeAfterBeforeStart ==
    ( /\ client.op = "FireTimeAfter"
      /\ ~client.t.complete
      /\ \/ client.t.repeatCount = REPEAT_INDEFINITELY
         \/ client.t.timesTriggered <= client.t.repeatCount )
    => /\ ( /\ AskedAfter < client.t.startTime
            /\ client.t.endTime = zero \/ ~(client.t.endTime < AskedAfter) )
          => client.out = "return" /\ client.val = client.t.startTime
       /\ (client.t.repeatCount = 0 /\ AskedAfter < client.t.startTime)
          => client.out = "return" /\ client.val = client.t.startTime
       /\ (client.t.repeatCount = 0 /\ AskedAfter > client.t.startTime)
          => client.out = "return" /\ client.val = zero

\* FireTimeAfter returned the startTime of a trigger with repeatCount 0 and
\* an endTime, asked about a moment before startTime.
C23_Witness ==
    /\ client.op = "FireTimeAfter"
    /\ ~client.t.complete
    /\ client.t.repeatCount = 0
    /\ client.t.timesTriggered = 0
    /\ client.t.endTime # zero
    /\ client.arg # zero
    /\ client.arg < client.t.startTime
    /\ client.out = "return"
    /\ client.val = client.t.startTime
    /\ client.at = "startTime"

\* C24: FireTimeAfter returns the zero time for every afterTime when the
\* trigger is complete or timesTriggered exceeds a finite repeatCount, and
\* when endTime is set and before afterTime; with REPEAT_INDEFINITELY neither
\* the timesTriggered test nor the repeat-count test is the one that returns.
C24_FireTimeAfterAbsent ==
    client.op = "FireTimeAfter"
    => /\ ( \/ client.t.complete
            \/ /\ client.t.repeatCount # REPEAT_INDEFINITELY
               /\ client.t.timesTriggered > client.t.repeatCount )
          => client.out = "return" /\ client.val = zero
       /\ (client.t.endTime # zero /\ client.t.endTime < AskedAfter)
          => client.out = "return" /\ client.val = zero
       /\ client.t.repeatCount = REPEAT_INDEFINITELY
          => client.at \notin {"timesTriggered", "repeatCount"}

\* FireTimeAfter returned the zero time for a complete trigger that repeats
\* indefinitely, asked about a moment before its startTime.
C24_Witness ==
    /\ client.op = "FireTimeAfter"
    /\ client.t.complete
    /\ client.t.repeatCount = REPEAT_INDEFINITELY
    /\ client.t.repeatInterval > 0
    /\ client.arg # zero
    /\ client.arg < client.t.startTime
    /\ client.out = "return"
    /\ client.val = zero
    /\ client.at = "complete"

\* C25: FinalFireTime returns startTime when repeatCount is 0; for an
\* indefinite repeatCount the zero time when endTime is unset and
\* FireTimeBefore(endTime) otherwise; for a finite positive repeatCount
\* startTime + repeatCount * repeatInterval when endTime is unset or that
\* candidate is before endTime, and FireTimeBefore(endTime) otherwise.
C25_FinalFireTimeCases ==
    client.op = "FinalFireTime"
    => /\ client.out = "return"
       /\ client.t.repeatCount = 0 => client.val = client.t.startTime
       /\ client.t.repeatCount = REPEAT_INDEFINITELY
          => client.val = IF client.t.endTime = zero
                          THEN zero
                          ELSE FireTimeBefore(client.t, client.t.endTime)
       /\ client.t.repeatCount >= 1
          => LET candidate == client.t.startTime
                                + client.t.repeatCount * client.t.repeatInterval
             IN  client.val = IF client.t.endTime = zero \/ candidate < client.t.endTime
                              THEN candidate
                              ELSE FireTimeBefore(client.t, client.t.endTime)

\* FinalFireTime of a trigger with two repeats of one millisecond and no
\* endTime returned startTime plus two milliseconds.
C25_Witness ==
    /\ client.op = "FinalFireTime"
    /\ client.t.startTime # zero
    /\ client.t.endTime = zero
    /\ client.t.repeatCount = 2
    /\ client.t.repeatInterval = Millisecond
    /\ client.val = client.t.startTime + 2 * Millisecond

\* C26: FireTimeBefore(endTime) returns the zero time when endTime is before
\* startTime, and otherwise
\* startTime + floor((endTime - startTime) / repeatInterval) * repeatInterval,
\* which is never after endTime and never before startTime; with a
\* repeatInterval below one millisecond, 0 included, the fire count is zero
\* and the result is startTime.
C26_FireTimeBeforeFloor ==
    client.op = "FireTimeBefore"
    => /\ client.out = "return"
       /\ client.arg < client.t.startTime => client.val = zero
       /\ (client.arg >= client.t.startTime /\ client.t.repeatInterval >= Millisecond)
          => /\ client.val = client.t.startTime
                  + ((client.arg - client.t.startTime) \div client.t.repeatInterval)
                      * client.t.repeatInterval
             /\ client.val <= client.arg
             /\ client.val >= client.t.startTime
       /\ (client.arg >= client.t.startTime /\ client.t.repeatInterval < Millisecond)
          => client.val = client.t.startTime

\* FireTimeBefore returned a fire time strictly between startTime and the
\* moment asked about, which is no whole number of intervals after startTime.
C26_Witness ==
    /\ client.op = "FireTimeBefore"
    /\ client.t.startTime # zero
    /\ client.t.repeatInterval >= Millisecond
    /\ client.val > client.t.startTime
    /\ client.val < client.arg
    /\ client.val = client.t.startTime + client.t.repeatInterval

\* C27: after any sequence of SetStartTime and SetEndTime calls an endTime
\* that is set is never before startTime; a call that would make it so, and
\* SetStartTime with the zero time, returns an error and leaves startTime and
\* endTime as they were.
C27_EndNeverBeforeStart ==
    /\ client.op \in {"Build", "SetStartTime", "SetEndTime", "FireTimeAfter",
                      "FireTimeBefore", "FinalFireTime"}
       => (client.t.endTime # zero => ~(client.t.endTime < client.t.startTime))
    /\ ( /\ client.op = "SetStartTime"
         /\ \/ client.arg = zero
            \/ client.pre.endTime # zero /\ client.pre.endTime < client.arg )
       => client.at # Nil /\ client.t = client.pre
    /\ ( /\ client.op = "SetEndTime"
         /\ client.arg # zero
         /\ client.pre.startTime # zero
         /\ client.arg < client.pre.startTime )
       => client.at # Nil /\ client.t = client.pre

\* On a trigger whose endTime was set while it had no startTime, a
\* SetStartTime with a later moment returned the error and changed nothing.
C27_Witness ==
    /\ client.op = "SetStartTime"
    /\ client.pre.startTime = zero
    /\ client.pre.endTime # zero
    /\ client.arg > client.pre.endTime
    /\ client.at = "End time cannot be before start time"
    /\ client.t = client.pre

\* The map the last call was made on, before and after the call.
BagBefore == IF client.on = "m" THEN client.pre ELSE client.preO

BagNow == IF client.on = "m" THEN client.m ELSE client.o

\* C28: a new map is not dirty; Put sets the dirty flag exactly when the key
\* was absent or its stored value differed from the new one; Remove sets it
\* exactly when the key existed; PutAll sets it exactly when an entry of the
\* other map was new or changed, and afterwards the map holds the other map's
\* value for every key of the other map; only ClearDirtyFlag resets the flag.
C28_DirtyFlag ==
    /\ client.op = "NewDirtyFlagMap" => ~client.m.dirty /\ ~client.o.dirty
    /\ client.op = "Put"
       => /\ BagNow.dirty
               = ( \/ BagBefore.dirty
                   \/ client.key \notin DOMAIN BagBefore.entries
                   \/ BagBefore.entries[client.key] # client.value )
          /\ BagNow.entries[client.key] = client.value
    /\ client.op = "Remove"
       => BagNow.dirty = (BagBefore.dirty \/ client.key \in DOMAIN BagBefore.entries)
    /\ client.op = "PutAll"
       => /\ client.m.dirty
               = ( \/ client.pre.dirty
                   \/ \E k \in DOMAIN client.o.entries :
                          \/ k \notin DOMAIN client.pre.entries
                          \/ client.pre.entries[k] # client.o.entries[k] )
          /\ \A k \in DOMAIN client.o.entries :
                 /\ k \in DOMAIN client.m.entries
                 /\ client.m.entries[k] = client.o.entries[k]
    /\ client.op # "ClearDirtyFlag" => (client.pre.dirty => client.m.dirty)
    /\ client.op \notin {"ClearDirtyFlag", "Clone"}
       => (client.preO.dirty => client.o.dirty)
    /\ client.op = "ClearDirtyFlag" => ~BagNow.dirty

\* A PutAll of a map with two entries into a clean map that already held
\* both of them, one among others, left it clean.
C28_Witness ==
    /\ client.op = "PutAll"
    /\ ~client.pre.dirty
    /\ Cardinality(DOMAIN client.o.entries) = 2
    /\ Cardinality(DOMAIN client.pre.entries) = 3
    /\ \A k \in DOMAIN client.o.entries : client.pre.entries[k] = client.o.entries[k]
    /\ ~client.m.dirty
    /\ client.m = client.pre

\* C29: Clone returns a map with the entries and the dirty flag of the
\* original, and a later Put, Remove or ClearDirtyFlag on either map changes
\* neither the entries nor the dirty flag of the other.
C29_ClonePreservesFlag ==
    /\ client.op = "Clone"
       => /\ client.o.entries = client.m.entries
          /\ client.o.dirty = client.m.dirty
          /\ client.m = client.pre
    /\ (client.op \in {"Put", "Remove", "ClearDirtyFlag"} /\ client.on = "m")
       => client.o = client.preO
    /\ (client.op \in {"Put", "Remove", "ClearDirtyFlag"} /\ client.on = "o")
       => client.m = client.pre

\* C30: after any insertions and removals, Keys(), Values() and Entries()
\* enumerate in ascending key order, each key of the map once, Values()[i] and
\* Entries()[i].Value() being the value stored under Keys()[i].
C30_EnumerationSorted ==
    client.op = "Keys"
    => /\ Len(client.val.Keys) = Cardinality(DOMAIN client.m.entries)
       /\ {client.val.Keys[i] : i \in 1..Len(client.val.Keys)} = DOMAIN client.m.entries
       /\ \A i \in 1..(Len(client.val.Keys) - 1) :
              StringsCompare(client.val.Keys[i], client.val.Keys[i + 1]) < 0
       /\ Len(client.val.Values) = Len(client.val.Keys)
       /\ Len(client.val.Entries) = Len(client.val.Keys)
       /\ \A i \in 1..Len(client.val.Keys) :
              /\ client.val.Values[i] = client.m.entries[client.val.Keys[i]]
              /\ client.val.Entries[i].key = client.val.Keys[i]
              /\ client.val.Entries[i].value = client.m.entries[client.val.Keys[i]]

\* A dirty map of three keys enumerated them as "a", "ab", "b", with the
\* values 1, 0, 1.
C30_Witness ==
    /\ client.op = "Keys"
    /\ client.m.dirty
    /\ client.val.Keys = << <<"a">>, <<"a", "b">>, <<"b">> >>
    /\ client.val.Values = <<1, 0, 1>>
    /\ Len(client.val.Entries) = 3

\* C31: after any Add and Remove calls the enumeration of the ordered set is
\* strictly increasing in comparator order; Add of an element
\* comparator-equal to one already present leaves the length and the contents
\* unchanged.
C31_StrictlyIncreasing ==
    client.op \in {"NewTreeSet", "Add", "Remove", "Contains", "Len"}
    => /\ client.out = "return"
       /\ \A i \in 1..(Len(client.s.items) - 1) :
              StringsCompare(client.s.items[i], client.s.items[i + 1]) < 0
       /\ ( /\ client.op = "Add"
            /\ \E i \in 1..Len(client.pre.items) :
                   StringsCompare(client.pre.items[i], client.item) = 0 )
          => client.s.items = client.pre.items

\* An Add of an element already in a set of three left the set as it was.
C31_Witness ==
    /\ client.op = "Add"
    /\ Len(client.pre.items) = 3
    /\ client.item = client.pre.items[2]
    /\ client.s.items = client.pre.items
    /\ client.out = "return"

\* The elements of the enumeration.
TreeElements(s) == {s.items[i] : i \in 1..Len(s.items)}

\* C32: under any Add and Remove calls the ordered set is the set of the
\* elements added and not removed since: Contains(x) tells whether x is one,
\* Len() is their number, Remove(x) returns true exactly when x was present,
\* removes only x and leaves the others in place, and a second Remove(x)
\* returns false.
C32_BehavesAsSet ==
    client.op \in {"NewTreeSet", "Add", "Remove", "Contains", "Len"}
    => /\ client.out = "return"
       /\ TreeElements(client.s) = client.present
       /\ Len(client.s.items) = Cardinality(client.present)
       /\ client.op = "Contains" => client.val = (client.item \in client.present)
       /\ client.op = "Len" => client.val = Cardinality(client.present)
       /\ client.op = "Remove"
          => /\ client.val = (client.item \in TreeElements(client.pre))
             /\ client.s.items
                  = SelectSeq(client.pre.items, LAMBDA x : x # client.item)
             /\ \E r \in {TreeSetRemove(client.s, client.s.items, client.item)} :
                    ~r.panic /\ ~r.val /\ r.items = client.s.items

\* A Remove of the middle element of a set of three returned true and left
\* the other two in place.
C32_Witness ==
    /\ client.op = "Remove"
    /\ Len(client.pre.items) = 3
    /\ client.item = client.pre.items[2]
    /\ client.val = TRUE
    /\ client.s.items = <<client.pre.items[1], client.pre.items[3]>>

\* C33: for any TriggerBuilder configuration b, the trigger b.Build() returns
\* reports the configured values: StartTime() is the StartAt value, EndTime()
\* the EndAt value, and Key(), JobKey(), Priority() and Description()
\* likewise; its TriggerBuilder() is field by field equal to b.
C33_BuildReportsConfiguration ==
    client.op = "Build"
    => /\ client.StartTime = client.pre.StartTime
       /\ client.EndTime = client.pre.EndTime
       /\ client.pre.Key # << >> => client.Key = client.pre.Key
       /\ client.JobKey = client.pre.JobKey
       /\ client.Priority = client.pre.Priority
       /\ client.Description = client.pre.Description
       /\ client.TriggerBuilder = client.b

\* C34: every store operation called on a store whose lock is free returns
\* and leaves the lock free: none blocks for ever on the lock it holds.
C34_EveryCallReturns ==
    (last.call.op # "NewRAMJobStore" /\ ~last.pre.lock)
    => last.out = "return" /\ ~store.lock

\* C36: a StoreTrigger call that fails leaves the store unchanged: a
\* StoreTrigger(t, replaceExisting) made with the lock free that does not
\* store t, as none does whose job is not stored, returns an error, and the
\* store, the trigger stored under t's key included, is as it was before.
C36_FailedStoreTriggerChangesNothing ==
    ( /\ last.call.op = "StoreTrigger"
      /\ ~last.pre.lock
      /\ \/ ~JobExists(last.pre, last.call.trigger.jobKey)
         \/ last.out # "return"
         \/ last.val # Nil )
    => /\ last.out = "return"
       /\ last.val \in {JobPersistence, AlreadyExists}
       /\ store = last.pre

\* C37: for a trigger with a startTime and an endTime that, if set, is not
\* before it, every result r of FireTimeAfter(afterTime) other than the zero
\* time is a point of the schedule inside its bounds: r is not before
\* afterTime, r = startTime + k * repeatInterval for an integer k >= 0 that
\* is at most a finite repeatCount, r is not after a set endTime, and r is
\* not after FinalFireTime() when that is not the zero time.
C37_FireTimeInsideSchedule ==
    ( /\ client.op = "FireTimeAfter"
      /\ client.out = "return"
      /\ client.val # zero
      /\ client.t.startTime # zero
      /\ client.t.endTime # zero => ~(client.t.endTime < client.t.startTime) )
    => /\ ~(client.val < AskedAfter)
       /\ \E k \in 0..client.val :
              /\ client.val = client.t.startTime + k * client.t.repeatInterval
              /\ client.t.repeatCount # REPEAT_INDEFINITELY => k <= client.t.repeatCount
       /\ client.t.endTime # zero => ~(client.val > client.t.endTime)
       /\ FinalFireTime(client.t) # zero => ~(client.val > FinalFireTime(client.t))

\* C38: FireTimeAfter returns a result, a time or the zero time, without
\* faulting for every trigger configuration and every afterTime, a
\* repeatInterval of 0 with afterTime at or after startTime included.
C38_FireTimeAfterReturns ==
    client.op = "FireTimeAfter" => client.out = "return"

\* C39: after StoreJob(j) returned, a change the caller makes to its own j,
\* a Put on j's data map, leaves what RetrieveJob hands out for every key
\* as it was, and the store's indices too.
C39_StoreKeepsNoCallerObject ==
    last.call.op = "JobDataMap.Put"
    => /\ \A key \in BuilderKeyInputs : Observed(store, key) = Observed(last.pre, key)
       /\ store.jobsByKey = last.pre.jobsByKey
       /\ store.jobsByGroup = last.pre.jobsByGroup

=============================================================================
